---- MODULE Spec2Model ----
(***************************************************************************)
(* Verification model of kubelet-side volume, network and bootstrap code:  *)
(*   - Azure disk attacher/detacher (pkg/volume/azure_dd/attacher.go)      *)
(*   - SetUpAt of the AWS EBS, GCE PD and Azure File mounters              *)
(*   - UnmountPath / UnmountMountPoint (pkg/volume/util)                   *)
(*   - the CNI network plugin (pkg/kubelet/dockershim/network/cni)         *)
(*   - the TLS bootstrap LoadClientCert (pkg/kubelet/certificate/bootstrap)*)
(* Each component has its own specification over the shared variables.     *)
(***************************************************************************)
EXTENDS Integers, Sequences, FiniteSets, TLC

(***************************************************************************)
(* Bounds of the model.                                                    *)
(***************************************************************************)
\* concurrent Attach/Detach callers
NumProcs == 2
\* data-disk LUN slots of one VM
MaxLun == 2
\* largest runtime.NumCPU() considered for the hashed key mutex
MaxCPUs == 2
\* largest WaitForAttach timeout, in poll intervals
MaxPolls == 3
\* most configuration files in the CNI confDir
MaxConfFiles == 1
\* most private keys generated over the life of a node
MaxKeys == 2
\* most pods on the node that is drained
MaxPods == 2
\* largest waitForDelete timeout, in poll intervals
MaxWaitTicks == 2

Procs == 1..NumProcs
\* the Azure instances (node names) and the managed disks callers name
Nodes == {1, 2}
Disks == {1, 2}
Luns == 0..(MaxLun - 1)

VARIABLES
    \* ---- Azure disk attacher ----
    mutexes,    \* getLunMutex: sequence of holders (0 = unlocked), <<>> before NewHashed
    vmDisks,    \* per node: the VM's data disks, a set of <<disk, lun>>
    apc,        \* per caller: position inside Attach / Detach ("idle" between calls)
    anode,      \* per caller: nodeName argument
    adisk,      \* per caller: disk argument
    alun,       \* per caller: local variable lun (-1 = unset)
    \* ---- mounters: SetUpAt and UnmountPath on one target directory ----
    dirExists,  \* the target directory exists
    mounted,    \* the target directory is a mount point
    mpc,        \* position inside SetUpAt / UnmountMountPoint ("idle" between calls)
    mplugin,    \* the call in progress or last returned: "aws" | "gce" | "azure" | "unmount"
    mwin,       \* runtime.GOOS == "windows" (read by the Azure File mounter)
    mret,       \* what the last call returned: "none" | "nil" | an error tag
    mfirst,     \* outcome of the call's first mount-point check (or of os.Stat)
    mlast,      \* outcome of the call's latest mount-point check ("none" again after an Unmount)
    mreaddir,   \* outcome of the Azure File mounter's ReadDir: "none" | "ok" | "err"
    mcalls,     \* calls the current call has made: [mkdir, mount, unmount, remove]
    mafter,     \* calls made after a failed Mount: [check, mount, unmount]
    mfailed,    \* the call's Mount failed
    mstart,     \* [exists, mounted] when the call started
    \* ---- azureDiskAttacher.WaitForAttach ----
    wpc,        \* "idle" | "poll"
    wlun,       \* the LUN parsed from devicePath by the current or last call (-1 = unset)
    wtimeout,   \* its timeout argument, in poll intervals of one second
    wtick,      \* poll intervals elapsed inside wait.Poll
    wdevs,      \* LUNs whose block device is present on the node
    wret,       \* what the last call returned: "none" | "path" | an error tag
    wmissed,    \* polls of the last call that found no device
    \* ---- cniNetworkPlugin ----
    confDir,        \* the configuration files of confDir, in sorted order
    probed,         \* ProbeNetworkPlugins has built the plugin
    loNetwork,      \* plugin.loNetwork # nil (there is none on Windows)
    defaultNetwork, \* plugin.defaultNetwork: its plugin list, <<>> for nil
    podCidr,        \* plugin.podCidr
    cev,            \* the last Event delivered: [name, str, val]
    cpc,            \* position inside SetUpPod / TearDownPod ("idle" between calls)
    cop,            \* the pod call in progress or last returned: "none" | "setup" | "teardown"
    cseen,          \* <<defaultNetwork, podCidr>> when that call ran checkInitialized
    cret,           \* what it returned: "none" | "nil" | an error tag
    ccalls,         \* the CNI calls it made: [add, del]
    \* ---- bootstrap.LoadClientCert ----
    kubeconfig,     \* the file at kubeconfigPath: "absent" | "valid" | "expired" | "corrupt" | "nocert"
    kubeAuth,       \* <<ClientCertificate, ClientKey>> of the kubeconfig LoadClientCert wrote
    storeKey,       \* private key of the store's current certificate, 0 for none
    tmpKey,         \* the key in kubelet-client.key.tmp, 0 when the file is absent
    nextKey,        \* the next key MakeEllipticPrivateKeyPEM generates
    bpc,            \* position inside LoadClientCert ("idle" between invocations)
    keyData,        \* keyData of the invocation in progress or last returned
    bsrc,           \* where keyData came from: "none" | "store" | "file" | "generated"
    bret,           \* what the invocation returned: "none" | "nil" | an error tag
    beff,           \* what the invocation did so far (see NoEffects)
    bseen,          \* [stat, kind]: what verifyBootstrapClientConfig found
    bstart,         \* <<storeKey, tmpKey>> when the invocation started
    bprev,          \* [ret, key] of the invocation before this one
    bcsr,           \* the key of the CSR this invocation submitted, 0 for none
    \* ---- GetVolumeLimits of the AWS EBS and GCE PD plugins ----
    vl,             \* the last call: its plugin, what the host answered, and its result
    \* ---- kubectl cordon / uncordon / drain ----
    dr,             \* the server's node and pods, the command run and what it did
    \* ---- DrainOptions.waitForDelete ----
    wd,             \* the pods waited for, what the server holds, and the call's progress
    \* ---- serviceCache ----
    sc,             \* the service cache, the last call on it and its result
    \* ---- azureFileProvisioner.Provision ----
    az,             \* Provision's options, its cloud calls and what it returned
    \* ---- util.GenerateVolumeName ----
    vn,             \* the last call of GenerateVolumeName and its outcome
    \* ---- LogsOptions.ToLogOptions ----
    lg,             \* the flags of kubectl logs and the log options made of them
    \* ---- makeGlobalPDPath / getVolumeIDFromGlobalMount ----
    gm,             \* a volume ID, its global mount path and the ID read back from it
    \* ---- PCCloud.DiskIsAttached / DisksAreAttached ----
    pcc             \* the Photon project a call met, the call and its result

attachVars == <<mutexes, vmDisks, apc, anode, adisk, alun>>

mountVars == <<dirExists, mounted, mpc, mplugin, mwin, mret, mfirst, mlast,
               mreaddir, mcalls, mafter, mfailed, mstart>>

waitVars == <<wpc, wlun, wtimeout, wtick, wdevs, wret, wmissed>>

cniVars == <<confDir, probed, loNetwork, defaultNetwork, podCidr, cev, cpc, cop, cseen,
             cret, ccalls>>

bootVars == <<kubeconfig, kubeAuth, storeKey, tmpKey, nextKey, bpc, keyData, bsrc, bret, beff, bseen,
              bstart, bprev, bcsr>>

limitVars == <<vl>>

drainVars == <<dr>>

waitDeleteVars == <<wd>>

cacheVars == <<sc>>

provisionVars == <<az>>

volumeNameVars == <<vn>>

logsVars == <<lg>>

globalMountVars == <<gm>>

photonVars == <<pcc>>

vars == <<attachVars, mountVars, waitVars, cniVars, bootVars, limitVars,
         drainVars, waitDeleteVars, cacheVars, provisionVars, volumeNameVars,
         logsVars, globalMountVars, photonVars>>

notAttachVars ==
    <<mountVars, waitVars, cniVars, bootVars, limitVars, drainVars,
      waitDeleteVars, cacheVars, provisionVars, volumeNameVars, logsVars,
      globalMountVars, photonVars>>

notMountVars ==
    <<attachVars, waitVars, cniVars, bootVars, limitVars, drainVars,
      waitDeleteVars, cacheVars, provisionVars, volumeNameVars, logsVars,
      globalMountVars, photonVars>>

notWaitVars ==
    <<attachVars, mountVars, cniVars, bootVars, limitVars, drainVars,
      waitDeleteVars, cacheVars, provisionVars, volumeNameVars, logsVars,
      globalMountVars, photonVars>>

notCniVars ==
    <<attachVars, mountVars, waitVars, bootVars, limitVars, drainVars,
      waitDeleteVars, cacheVars, provisionVars, volumeNameVars, logsVars,
      globalMountVars, photonVars>>

notBootVars ==
    <<attachVars, mountVars, waitVars, cniVars, limitVars, drainVars,
      waitDeleteVars, cacheVars, provisionVars, volumeNameVars, logsVars,
      globalMountVars, photonVars>>

notLimitVars ==
    <<attachVars, mountVars, waitVars, cniVars, bootVars, drainVars,
      waitDeleteVars, cacheVars, provisionVars, volumeNameVars, logsVars,
      globalMountVars, photonVars>>

notDrainVars ==
    <<attachVars, mountVars, waitVars, cniVars, bootVars, limitVars,
      waitDeleteVars, cacheVars, provisionVars, volumeNameVars, logsVars,
      globalMountVars, photonVars>>

notWaitDeleteVars ==
    <<attachVars, mountVars, waitVars, cniVars, bootVars, limitVars,
      drainVars, cacheVars, provisionVars, volumeNameVars, logsVars,
      globalMountVars, photonVars>>

notCacheVars ==
    <<attachVars, mountVars, waitVars, cniVars, bootVars, limitVars,
      drainVars, waitDeleteVars, provisionVars, volumeNameVars, logsVars,
      globalMountVars, photonVars>>

notProvisionVars ==
    <<attachVars, mountVars, waitVars, cniVars, bootVars, limitVars,
      drainVars, waitDeleteVars, cacheVars, volumeNameVars, logsVars,
      globalMountVars, photonVars>>

notVolumeNameVars ==
    <<attachVars, mountVars, waitVars, cniVars, bootVars, limitVars,
      drainVars, waitDeleteVars, cacheVars, provisionVars, logsVars,
      globalMountVars, photonVars>>

notLogsVars ==
    <<attachVars, mountVars, waitVars, cniVars, bootVars, limitVars,
      drainVars, waitDeleteVars, cacheVars, provisionVars, volumeNameVars,
      globalMountVars, photonVars>>

notGlobalMountVars ==
    <<attachVars, mountVars, waitVars, cniVars, bootVars, limitVars,
      drainVars, waitDeleteVars, cacheVars, provisionVars, volumeNameVars,
      logsVars, photonVars>>

notPhotonVars ==
    <<attachVars, mountVars, waitVars, cniVars, bootVars, limitVars,
      drainVars, waitDeleteVars, cacheVars, provisionVars, volumeNameVars,
      logsVars, globalMountVars>>

(***************************************************************************)
(* Azure disk attacher: keyed mutex                                        *)
(***************************************************************************)
\* cloud.InstanceID: one instance id per node
InstanceID(n) == n

\* keymutex hashed key mutex: the key selects one of Len(mutexes) mutexes
HashKey(id) == (id % Len(mutexes)) + 1

LockFree(id) == mutexes[HashKey(id)] = 0

LockKey(p, id) == [mutexes EXCEPT ![HashKey(id)] = p]

UnlockKey(p, id) == [mutexes EXCEPT ![HashKey(id)] = 0]

HoldsLock(p) == \E i \in 1..Len(mutexes) : mutexes[i] = p

InitAttach ==
    /\ mutexes = <<>>
    /\ vmDisks = [n \in Nodes |-> {}]
    /\ apc = [p \in Procs |-> "idle"]
    /\ anode = [p \in Procs |-> 1]
    /\ adisk = [p \in Procs |-> 1]
    /\ alun = [p \in Procs |-> -1]

\* var getLunMutex = keymutex.NewHashed(0): one mutex per CPU
NewHashed ==
    /\ mutexes = <<>>
    /\ \E n \in 1..MaxCPUs : mutexes' = [i \in 1..n |-> 0]
    /\ UNCHANGED <<vmDisks, apc, anode, adisk, alun>>
    /\ UNCHANGED notAttachVars

\* diskController.GetDiskLun: the LUN of an attached disk, -1 (error) otherwise
GetDiskLun(d, n) ==
    IF \E l \in Luns : <<d, l>> \in vmDisks[n]
    THEN CHOOSE l \in Luns : <<d, l>> \in vmDisks[n]
    ELSE -1

UsedLuns(n) == {l \in Luns : \E d \in Disks : <<d, l>> \in vmDisks[n]}

\* diskController.GetNextDiskLun: the first LUN no data disk uses, -1 when all are used
GetNextDiskLun(n) ==
    IF UsedLuns(n) = Luns THEN -1
    ELSE CHOOSE l \in Luns \ UsedLuns(n) : \A m \in Luns \ UsedLuns(n) : l <= m

\* the locals of a returned call go out of scope
Returned(p) ==
    /\ apc' = [apc EXCEPT ![p] = "idle"]
    /\ anode' = [anode EXCEPT ![p] = 1]
    /\ adisk' = [adisk EXCEPT ![p] = 1]
    /\ alun' = [alun EXCEPT ![p] = -1]

\* attacher.go 62-92: Attach is called. getVolumeSource, InstanceID or
\* getDiskController may fail and return before any lock is taken; a disk that
\* GetDiskLun finds attached returns its LUN without locking
AttachCall(p) ==
    /\ mutexes # <<>>
    /\ apc[p] = "idle"
    /\ \E d \in Disks, n \in Nodes, ok \in BOOLEAN :
         IF ~ok
         THEN Returned(p)
         ELSE IF GetDiskLun(d, n) # -1
         THEN Returned(p)
         ELSE /\ apc' = [apc EXCEPT ![p] = "a_lock"]
              /\ adisk' = [adisk EXCEPT ![p] = d]
              /\ anode' = [anode EXCEPT ![p] = n]
              /\ UNCHANGED alun
    /\ UNCHANGED <<mutexes, vmDisks>>
    /\ UNCHANGED notAttachVars

\* a caller that skips the lock
AttachLockKeyNoLock(p) ==
    /\ apc[p] = "a_lock"
    /\ apc' = [apc EXCEPT ![p] = "a_getNextLun"]
    /\ UNCHANGED <<mutexes, vmDisks, anode, adisk, alun>>
    /\ UNCHANGED notAttachVars

\* attacher.go 93: getLunMutex.LockKey(instanceid) blocks until the mutex is free
AttachLockKey(p) ==
    /\ apc[p] = "a_lock"
    /\ LockFree(InstanceID(anode[p]))
    /\ mutexes' = LockKey(p, InstanceID(anode[p]))
    /\ apc' = [apc EXCEPT ![p] = "a_getNextLun"]
    /\ UNCHANGED <<vmDisks, anode, adisk, alun>>
    /\ UNCHANGED notAttachVars

\* attacher.go 96-100: GetNextDiskLun; on error the deferred UnlockKey runs
AttachGetNextDiskLun(p) ==
    /\ apc[p] = "a_getNextLun"
    /\ \E apiOk \in BOOLEAN :
         LET lun == IF apiOk THEN GetNextDiskLun(anode[p]) ELSE -1 IN
         IF lun = -1
         THEN /\ Returned(p)
              /\ mutexes' = UnlockKey(p, InstanceID(anode[p]))
         ELSE /\ alun' = [alun EXCEPT ![p] = lun]
              /\ apc' = [apc EXCEPT ![p] = "a_attachDisk"]
              /\ UNCHANGED <<mutexes, anode, adisk>>
    /\ UNCHANGED vmDisks
    /\ UNCHANGED notAttachVars

\* attacher.go 103-112: AttachDisk adds the data disk at the LUN or fails;
\* either way Attach returns and the deferred UnlockKey runs
AttachAttachDisk(p) ==
    /\ apc[p] = "a_attachDisk"
    /\ \E ok \in BOOLEAN :
         IF ok /\ GetDiskLun(adisk[p], anode[p]) = -1
         THEN /\ vmDisks' = [vmDisks EXCEPT ![anode[p]] = @ \cup {<<adisk[p], alun[p]>>}]
              /\ Returned(p)
         ELSE /\ Returned(p)
              /\ UNCHANGED vmDisks
    /\ mutexes' = UnlockKey(p, InstanceID(anode[p]))
    /\ UNCHANGED notAttachVars

\* attacher.go 280-296: Detach; an empty diskURI or a failed getDiskController
\* or a failed InstanceID returns before the lock
DetachCall(p) ==
    /\ mutexes # <<>>
    /\ apc[p] = "idle"
    /\ \E d \in Disks, n \in Nodes, ok \in BOOLEAN :
         IF ok
         THEN /\ apc' = [apc EXCEPT ![p] = "d_lock"]
              /\ adisk' = [adisk EXCEPT ![p] = d]
              /\ anode' = [anode EXCEPT ![p] = n]
              /\ UNCHANGED alun
         ELSE Returned(p)
    /\ UNCHANGED <<mutexes, vmDisks>>
    /\ UNCHANGED notAttachVars

\* attacher.go 298: getLunMutex.LockKey(instanceid)
DetachLockKey(p) ==
    /\ apc[p] = "d_lock"
    /\ LockFree(InstanceID(anode[p]))
    /\ mutexes' = LockKey(p, InstanceID(anode[p]))
    /\ apc' = [apc EXCEPT ![p] = "d_detach"]
    /\ UNCHANGED <<vmDisks, anode, adisk, alun>>
    /\ UNCHANGED notAttachVars

\* attacher.go 301-307: DetachDiskByName, then return with the deferred UnlockKey
DetachDiskByName(p) ==
    /\ apc[p] = "d_detach"
    /\ \E ok \in BOOLEAN :
         IF ok
         THEN /\ vmDisks' = [vmDisks EXCEPT ![anode[p]] = {e \in @ : e[1] # adisk[p]}]
              /\ Returned(p)
         ELSE /\ Returned(p)
              /\ UNCHANGED vmDisks
    /\ mutexes' = UnlockKey(p, InstanceID(anode[p]))
    /\ UNCHANGED notAttachVars

NextAttach ==
    \/ NewHashed
    \/ \E p \in Procs : AttachCall(p)
    \/ \E p \in Procs : AttachLockKey(p)
    \/ \E p \in Procs : AttachGetNextDiskLun(p)
    \/ \E p \in Procs : AttachAttachDisk(p)
    \/ \E p \in Procs : DetachCall(p)
    \/ \E p \in Procs : DetachLockKey(p)
    \/ \E p \in Procs : DetachDiskByName(p)

(***************************************************************************)
(* Mounters: SetUpAt of AWS EBS, GCE PD and Azure File                     *)
(***************************************************************************)
NoCalls == [mkdir |-> 0, mount |-> 0, unmount |-> 0, remove |-> 0]

NoAfter == [check |-> 0, mount |-> 0, unmount |-> 0]

InitMount ==
    /\ dirExists = FALSE
    /\ mounted = FALSE
    /\ mpc = "idle"
    /\ mplugin = "none"
    /\ mwin = FALSE
    /\ mret = "none"
    /\ mfirst = "none"
    /\ mlast = "none"
    /\ mreaddir = "none"
    /\ mcalls = NoCalls
    /\ mafter = NoAfter
    /\ mfailed = FALSE
    /\ mstart = <<FALSE, FALSE>>

\* mount.Interface.IsLikelyNotMountPoint: what it can report for the directory
CheckOutcomes ==
    IF ~dirExists THEN {"notexist", "err"}
    ELSE IF mounted THEN {"mnt", "err"} ELSE {"notmnt", "err"}

\* mount.Interface.Mount: "ok" mounts; a failed Mount may leave the directory mounted
MountOutcomes == {"ok", "err", "errMounted"}

\* mount.Interface.Unmount: "okStill" returns nil with the directory still a mount point
UnmountOutcomes == IF mounted THEN {"ok", "okStill", "err"} ELSE {"ok", "err"}

\* os.Remove of the directory: possible only for an existing directory that is no mount point
RemoveOutcomes == IF dirExists /\ ~mounted THEN {"ok", "err"} ELSE {"err"}

MReturn(r) ==
    /\ mpc' = "idle"
    /\ mret' = r

MBegin(pl, w, pc) ==
    /\ mpc = "idle"
    /\ mpc' = pc
    /\ mplugin' = pl
    /\ mwin' = w
    /\ mret' = "none"
    /\ mfirst' = "none"
    /\ mlast' = "none"
    /\ mreaddir' = "none"
    /\ mcalls' = NoCalls
    /\ mafter' = NoAfter
    /\ mfailed' = FALSE
    /\ mstart' = <<dirExists, mounted>>

\* SetUpAt is called on the AWS EBS, GCE PD or Azure File mounter
SetUpAtCall ==
    /\ \E pl \in {"aws", "gce", "azure"}, w \in BOOLEAN :
         /\ (w => pl = "azure")
         /\ MBegin(pl, w, "s_check")
    /\ UNCHANGED <<dirExists, mounted>>
    /\ UNCHANGED notMountVars

\* a first check that ignores its answer and always goes on to mount
SetUpCheckAlwaysMounts ==
    /\ mpc = "s_check"
    /\ \E r \in CheckOutcomes :
         /\ mfirst' = r
         /\ mlast' = r
         /\ IF r = "err" THEN MReturn("checkErr")
            ELSE mpc' = "s_prepare" /\ UNCHANGED mret
    /\ UNCHANGED <<dirExists, mounted, mplugin, mwin, mreaddir, mcalls, mafter, mfailed, mstart>>
    /\ UNCHANGED notMountVars

\* aws_ebs.go 377-385, gce_pd.go 362-370, azure_file.go 239-243:
\* IsLikelyNotMountPoint; an error other than not-exist returns it, an existing
\* mount point returns nil (Azure File first reads the directory)
SetUpCheck ==
    /\ mpc = "s_check"
    /\ \E r \in CheckOutcomes :
         /\ mfirst' = r
         /\ mlast' = r
         /\ IF r = "err" THEN MReturn("checkErr")
            ELSE IF r = "mnt"
            THEN IF mplugin = "azure"
                 THEN mpc' = "s_readdir" /\ UNCHANGED mret
                 ELSE MReturn("nil")
            ELSE mpc' = "s_prepare" /\ UNCHANGED mret
    /\ UNCHANGED <<dirExists, mounted, mplugin, mwin, mreaddir, mcalls, mafter, mfailed, mstart>>
    /\ UNCHANGED notMountVars

\* azure_file.go 245-248: ReadDir of the mounted directory
SetUpReadDir ==
    /\ mpc = "s_readdir"
    /\ \E ok \in BOOLEAN :
         IF ok THEN mreaddir' = "ok" /\ MReturn("nil")
         ELSE mreaddir' = "err" /\ mpc' = "s_staleUnmount" /\ UNCHANGED mret
    /\ UNCHANGED <<dirExists, mounted, mplugin, mwin, mfirst, mlast, mcalls, mafter, mfailed, mstart>>
    /\ UNCHANGED notMountVars

\* azure_file.go 250-256: the mount link is invalid, unmount and remount later
SetUpStaleUnmount ==
    /\ mpc = "s_staleUnmount"
    /\ mcalls' = [mcalls EXCEPT !.unmount = @ + 1]
    /\ mlast' = "none"
    /\ \E r \in UnmountOutcomes :
         /\ mounted' = IF r = "ok" THEN FALSE ELSE mounted
         /\ IF r = "err" THEN MReturn("unmountErr")
            ELSE mpc' = "s_prepare" /\ UNCHANGED mret
    /\ UNCHANGED <<dirExists, mplugin, mwin, mfirst, mreaddir, mafter, mfailed, mstart>>
    /\ UNCHANGED notMountVars

\* aws_ebs.go 389-391, gce_pd.go 372-375, azure_file.go 258-273:
\* Azure File loads the credentials; MkdirAll (not on Windows for Azure File)
SetUpPrepare ==
    /\ mpc = "s_prepare"
    /\ \E credOk \in BOOLEAN, mkdirOk \in BOOLEAN :
         IF mplugin = "azure" /\ ~credOk
         THEN MReturn("credErr") /\ UNCHANGED <<dirExists, mcalls>>
         ELSE IF mplugin = "azure" /\ mwin
         THEN mpc' = "s_mount" /\ UNCHANGED <<mret, dirExists, mcalls>>
         ELSE /\ mcalls' = [mcalls EXCEPT !.mkdir = @ + 1]
              /\ IF mkdirOk
                 THEN dirExists' = TRUE /\ mpc' = "s_mount" /\ UNCHANGED mret
                 ELSE MReturn("mkdirErr") /\ UNCHANGED dirExists
    /\ UNCHANGED <<mounted, mplugin, mwin, mfirst, mlast, mreaddir, mafter, mfailed, mstart>>
    /\ UNCHANGED notMountVars

\* aws_ebs.go 399-400, 427-432; gce_pd.go 388-389, 416-421; azure_file.go 284-285, 309:
\* Mount; success returns nil, failure enters the recovery
SetUpMount ==
    /\ mpc = "s_mount"
    /\ mcalls' = [mcalls EXCEPT !.mount = @ + 1]
    /\ \E r \in MountOutcomes :
         /\ mounted' = IF r \in {"ok", "errMounted"} THEN TRUE ELSE mounted
         /\ dirExists' = IF r \in {"ok", "errMounted"} THEN TRUE ELSE dirExists
         /\ IF r = "ok"
            THEN MReturn("nil") /\ UNCHANGED mfailed
            ELSE mfailed' = TRUE /\ mpc' = "s_failedCheck" /\ UNCHANGED mret
    /\ UNCHANGED <<mplugin, mwin, mfirst, mlast, mreaddir, mafter, mstart>>
    /\ UNCHANGED notMountVars

\* aws_ebs.go 401-405, gce_pd.go 390-394, azure_file.go 286-290:
\* after the failed Mount, IsLikelyNotMountPoint; its error returns the mount error
SetUpFailedCheck ==
    /\ mpc = "s_failedCheck"
    /\ mafter' = [mafter EXCEPT !.check = @ + 1]
    /\ \E r \in CheckOutcomes :
         /\ mlast' = r
         /\ IF r \in {"err", "notexist"} THEN MReturn("mountErr")
            ELSE IF r = "mnt" THEN mpc' = "s_failedUnmount" /\ UNCHANGED mret
            ELSE mpc' = "s_remove" /\ UNCHANGED mret
    /\ UNCHANGED <<dirExists, mounted, mplugin, mwin, mfirst, mreaddir, mcalls, mfailed, mstart>>
    /\ UNCHANGED notMountVars

\* a recovery that hands out the Unmount error in place of the mount error
SetUpFailedUnmountReturnsMntErr ==
    /\ mpc = "s_failedUnmount"
    /\ mcalls' = [mcalls EXCEPT !.unmount = @ + 1]
    /\ mlast' = "none"
    /\ mafter' = [mafter EXCEPT !.unmount = @ + 1]
    /\ \E r \in UnmountOutcomes :
         /\ mounted' = IF r = "ok" THEN FALSE ELSE mounted
         /\ IF r = "err" THEN MReturn("unmountErr")
            ELSE mpc' = "s_failedRecheck" /\ UNCHANGED mret
    /\ UNCHANGED <<dirExists, mplugin, mwin, mfirst, mreaddir, mfailed, mstart>>
    /\ UNCHANGED notMountVars

\* aws_ebs.go 406-410, gce_pd.go 395-399, azure_file.go 291-295:
\* the directory is mounted after the failed Mount: Unmount it
SetUpFailedUnmount ==
    /\ mpc = "s_failedUnmount"
    /\ mcalls' = [mcalls EXCEPT !.unmount = @ + 1]
    /\ mlast' = "none"
    /\ mafter' = [mafter EXCEPT !.unmount = @ + 1]
    /\ \E r \in UnmountOutcomes :
         /\ mounted' = IF r = "ok" THEN FALSE ELSE mounted
         /\ IF r = "err" THEN MReturn("mountErr")
            ELSE mpc' = "s_failedRecheck" /\ UNCHANGED mret
    /\ UNCHANGED <<dirExists, mplugin, mwin, mfirst, mreaddir, mfailed, mstart>>
    /\ UNCHANGED notMountVars

\* a recovery that unmounts again for as long as the directory stays mounted
SetUpFailedRecheckLoops ==
    /\ mpc = "s_failedRecheck"
    /\ mafter' = [mafter EXCEPT !.check = @ + 1]
    /\ \E r \in CheckOutcomes :
         /\ mlast' = r
         /\ IF r \in {"err", "notexist"} THEN MReturn("mountErr")
            ELSE IF r = "mnt" THEN mpc' = "s_failedUnmount" /\ UNCHANGED mret
            ELSE mpc' = "s_remove" /\ UNCHANGED mret
    /\ UNCHANGED <<dirExists, mounted, mplugin, mwin, mfirst, mreaddir, mcalls, mfailed, mstart>>
    /\ UNCHANGED notMountVars

\* aws_ebs.go 411-420, gce_pd.go 400-409, azure_file.go 296-305:
\* check again after Unmount; still mounted returns the mount error
SetUpFailedRecheck ==
    /\ mpc = "s_failedRecheck"
    /\ mafter' = [mafter EXCEPT !.check = @ + 1]
    /\ \E r \in CheckOutcomes :
         /\ mlast' = r
         /\ IF r \in {"err", "notexist", "mnt"} THEN MReturn("mountErr")
            ELSE mpc' = "s_remove" /\ UNCHANGED mret
    /\ UNCHANGED <<dirExists, mounted, mplugin, mwin, mfirst, mreaddir, mcalls, mfailed, mstart>>
    /\ UNCHANGED notMountVars

\* aws_ebs.go 422-424, gce_pd.go 411-413, azure_file.go 307-308:
\* os.Remove(dir), its result ignored, and the mount error returned
SetUpRemove ==
    /\ mpc = "s_remove"
    /\ mcalls' = [mcalls EXCEPT !.remove = @ + 1]
    /\ \E r \in RemoveOutcomes : dirExists' = IF r = "ok" THEN FALSE ELSE dirExists
    /\ MReturn("mountErr")
    /\ UNCHANGED <<mounted, mplugin, mwin, mfirst, mlast, mreaddir, mafter, mfailed, mstart>>
    /\ UNCHANGED notMountVars

(***************************************************************************)
(* UnmountPath / UnmountMountPoint / doUnmountMountPoint                   *)
(***************************************************************************)
\* os.Stat of the path: "corrupt" is ENOTCONN / ESTALE / EIO, "other" any other error
StatOutcomes ==
    IF ~dirExists THEN {"notexist", "other"}
    ELSE IF mounted THEN {"ok", "corrupt", "other"} ELSE {"ok", "other"}

\* detacher.go 291-302: PathExists, <<exists, error>>
PathExists(st) ==
    IF st = "ok" THEN <<TRUE, "nil">>
    ELSE IF st = "notexist" THEN <<FALSE, "nil">>
    ELSE IF st = "corrupt" THEN <<TRUE, st>>
    ELSE <<FALSE, st>>

\* detacher.go 305-322
IsCorruptedMnt(err) == err = "corrupt"

\* detacher.go 226-246, 254-255: UnmountPath (TearDownAt of the mounters) calls
\* UnmountMountPoint; a corrupted mount point skips the first mount-point check
UnmountMountPoint ==
    /\ MBegin("unmount", FALSE, "u_stat")
    /\ UNCHANGED <<dirExists, mounted>>
    /\ UNCHANGED notMountVars

UnmountStat ==
    /\ mpc = "u_stat"
    /\ \E st \in StatOutcomes :
         LET pathExists == PathExists(st)[1]
             pathErr == PathExists(st)[2]
             corruptedMnt == IsCorruptedMnt(pathErr)
         IN  IF ~pathExists THEN MReturn("nil")
             ELSE IF pathErr # "nil" /\ ~corruptedMnt THEN MReturn("checkPathErr")
             ELSE IF corruptedMnt THEN mpc' = "u_unmount" /\ UNCHANGED mret
             ELSE mpc' = "u_check" /\ UNCHANGED mret
    /\ UNCHANGED <<dirExists, mounted, mplugin, mwin, mfirst, mlast, mreaddir, mcalls,
                   mafter, mfailed, mstart>>
    /\ UNCHANGED notMountVars

\* detacher.go 256-273: IsNotMountPoint or IsLikelyNotMountPoint
UnmountCheck ==
    /\ mpc = "u_check"
    /\ \E r \in CheckOutcomes :
         /\ mfirst' = r
         /\ mlast' = r
         /\ IF r \in {"err", "notexist"} THEN MReturn("checkErr")
            ELSE IF r = "notmnt" THEN mpc' = "u_remove" /\ UNCHANGED mret
            ELSE mpc' = "u_unmount" /\ UNCHANGED mret
    /\ UNCHANGED <<dirExists, mounted, mplugin, mwin, mreaddir, mcalls, mafter, mfailed, mstart>>
    /\ UNCHANGED notMountVars

\* detacher.go 275-279: Unmount the mount path
UnmountUnmount ==
    /\ mpc = "u_unmount"
    /\ mcalls' = [mcalls EXCEPT !.unmount = @ + 1]
    /\ mlast' = "none"
    /\ \E r \in UnmountOutcomes :
         /\ mounted' = IF r = "ok" THEN FALSE ELSE mounted
         /\ IF r = "err" THEN MReturn("unmountErr")
            ELSE mpc' = "u_recheck" /\ UNCHANGED mret
    /\ UNCHANGED <<dirExists, mplugin, mwin, mfirst, mreaddir, mafter, mfailed, mstart>>
    /\ UNCHANGED notMountVars

\* detacher.go 280-288: check again; still a mount point is "failed to unmount path"
UnmountRecheck ==
    /\ mpc = "u_recheck"
    /\ \E r \in CheckOutcomes :
         /\ mlast' = r
         /\ IF r \in {"err", "notexist"} THEN MReturn("checkErr")
            ELSE IF r = "notmnt" THEN mpc' = "u_remove" /\ UNCHANGED mret
            ELSE MReturn("failedToUnmount")
    /\ UNCHANGED <<dirExists, mounted, mplugin, mwin, mfirst, mreaddir, mcalls, mafter,
                   mfailed, mstart>>
    /\ UNCHANGED notMountVars

\* detacher.go 270-271, 285-286: return os.Remove(mountPath)
UnmountRemove ==
    /\ mpc = "u_remove"
    /\ mcalls' = [mcalls EXCEPT !.remove = @ + 1]
    /\ \E r \in RemoveOutcomes :
         /\ dirExists' = IF r = "ok" THEN FALSE ELSE dirExists
         /\ MReturn(IF r = "ok" THEN "nil" ELSE "removeErr")
    /\ UNCHANGED <<mounted, mplugin, mwin, mfirst, mlast, mreaddir, mafter, mfailed, mstart>>
    /\ UNCHANGED notMountVars

NextMount ==
    \/ SetUpAtCall
    \/ SetUpCheck
    \/ SetUpReadDir
    \/ SetUpStaleUnmount
    \/ SetUpPrepare
    \/ SetUpMount
    \/ SetUpFailedCheck
    \/ SetUpFailedUnmount
    \/ SetUpFailedRecheck
    \/ SetUpRemove
    \/ UnmountMountPoint
    \/ UnmountStat
    \/ UnmountCheck
    \/ UnmountUnmount
    \/ UnmountRecheck
    \/ UnmountRemove

(***************************************************************************)
(* azureDiskAttacher.WaitForAttach                                         *)
(***************************************************************************)
InitWait ==
    /\ wpc = "idle"
    /\ wlun = -1
    /\ wtimeout = 0
    /\ wtick = 0
    /\ wdevs = {}
    /\ wret = "none"
    /\ wmissed = 0

\* findDiskByLun: the device path of the LUN, "" when there is none yet, or an error
FindOutcomes(lun) == {IF lun \in wdevs THEN "found" ELSE "notfound", "err"}

\* attacher.go 191-202: the condition function handed to wait.Poll
WaitCondition(find) ==
    IF find = "err" THEN [done |-> FALSE, err |-> "tickerFailed"]
    ELSE IF find = "found" THEN [done |-> TRUE, err |-> "nil"]
    ELSE [done |-> FALSE, err |-> "failedWithinTimeout"]

\* attacher.go 154-189: getVolumeSource, getDiskController and the LUN lookup
\* (GetDiskLun on Windows, getDiskLUN(devicePath) elsewhere) may fail and return
WaitForAttachCall ==
    /\ wpc = "idle"
    /\ \E l \in Luns, t \in 1..MaxPolls, ok \in BOOLEAN :
         IF ok
         THEN /\ wpc' = "poll"
              /\ wlun' = l
              /\ wtimeout' = t
              /\ wret' = "none"
         ELSE /\ wret' = "lunErr"
              /\ UNCHANGED <<wpc, wlun, wtimeout>>
    /\ wtick' = 0
    /\ wmissed' = 0
    /\ UNCHANGED wdevs
    /\ UNCHANGED notWaitVars

WReturn(r) ==
    /\ wpc' = "idle"
    /\ wret' = r
    /\ UNCHANGED <<wlun, wtimeout>>

\* attacher.go 191-204 inside wait.Poll(1s, timeout, condition): after each
\* interval the condition runs; Poll returns its error at once, returns nil when
\* it is done, and returns ErrWaitTimeout once the timeout has elapsed
WaitPoll ==
    /\ wpc = "poll"
    /\ wtick' = wtick + 1
    /\ \E find \in FindOutcomes(wlun) :
         LET c == WaitCondition(find) IN
         /\ wmissed' = IF find = "notfound" THEN wmissed + 1 ELSE wmissed
         /\ IF c.err # "nil" THEN WReturn(c.err)
            ELSE IF c.done THEN WReturn("path")
            ELSE IF wtick + 1 >= wtimeout THEN WReturn("ErrWaitTimeout")
            ELSE UNCHANGED <<wpc, wret, wlun, wtimeout>>
    /\ UNCHANGED wdevs
    /\ UNCHANGED notWaitVars

\* the kernel creates the block device of an attached LUN
DeviceAppears ==
    /\ \E l \in Luns \ wdevs : wdevs' = wdevs \cup {l}
    /\ UNCHANGED <<wpc, wlun, wtimeout, wtick, wret, wmissed>>
    /\ UNCHANGED notWaitVars

\* the disk is detached and its device goes away
DeviceDisappears ==
    /\ \E l \in wdevs : wdevs' = wdevs \ {l}
    /\ UNCHANGED <<wpc, wlun, wtimeout, wtick, wret, wmissed>>
    /\ UNCHANGED notWaitVars

NextWait ==
    \/ WaitForAttachCall
    \/ WaitPoll
    \/ DeviceAppears
    \/ DeviceDisappears

(***************************************************************************)
(* cniNetworkPlugin                                                        *)
(***************************************************************************)
\* a network configuration list: per plugin, whether it declares
\* Capabilities["ipRanges"]
PluginLists == {<<FALSE>>, <<TRUE>>, <<FALSE, TRUE>>}

\* a file of confDir: one that fails to load, or a list (possibly of no plugins)
ConfFiles ==
    {[valid |-> FALSE, plugins |-> <<>>]}
        \cup {[valid |-> TRUE, plugins |-> l] : l \in PluginLists \cup {<<>>}}

NilNetwork == <<>>

PodCidrs == {"10.0.0.0/24", "10.0.1.0/24"}

\* network.NET_PLUGIN_EVENT_POD_CIDR_CHANGE
PodCidrChange == "pod-cidr-change"

NoEvent == [name |-> "none", str |-> FALSE, val |-> ""]

\* the events delivered to the plugin: pod-CIDR changes whose detail is a string
\* (a CIDR or ""), one whose detail is no string, and an event of another name
Events ==
    {[name |-> PodCidrChange, str |-> TRUE, val |-> c] : c \in PodCidrs \cup {""}}
        \cup {[name |-> PodCidrChange, str |-> FALSE, val |-> ""],
              [name |-> "other", str |-> TRUE, val |-> "10.0.0.0/24"]}

NoCniCalls == [add |-> 0, del |-> 0]

InitCni ==
    /\ confDir = <<>>
    /\ probed = FALSE
    /\ loNetwork = FALSE
    /\ defaultNetwork = NilNetwork
    /\ podCidr = ""
    /\ cev = NoEvent
    /\ cpc = "idle"
    /\ cop = "none"
    /\ cseen = <<NilNetwork, "">>
    /\ cret = "none"
    /\ ccalls = NoCniCalls

RECURSIVE FirstUsable(_)
\* cni.go 119-170: getDefaultCNINetwork, the first file that loads and has
\* plugins; NilNetwork stands for its error
FirstUsable(files) ==
    IF files = <<>> THEN NilNetwork
    ELSE IF Head(files).valid /\ Len(Head(files).plugins) > 0 THEN Head(files).plugins
    ELSE FirstUsable(Tail(files))

\* cni.go 185-192: syncNetworkConfig keeps the old network when none can be loaded
SyncedNetwork ==
    IF FirstUsable(confDir) = NilNetwork THEN defaultNetwork ELSE FirstUsable(confDir)

\* a check that looks at the capabilities of the first plugin only
CheckInitializedFirstPluginOnly ==
    IF defaultNetwork = NilNetwork THEN "uninitialized"
    ELSE IF defaultNetwork[1] /\ podCidr = "" THEN "noPodCIDR"
    ELSE "nil"

\* cni.go 206-221: checkInitialized
CheckInitialized ==
    IF defaultNetwork = NilNetwork THEN "uninitialized"
    ELSE IF (\E i \in 1..Len(defaultNetwork) : defaultNetwork[i]) /\ podCidr = ""
    THEN "noPodCIDR"
    ELSE "nil"

\* the administrator or a network add-on adds, rewrites or removes one file of
\* confDir; the files stay in the order of their names
ConfDirChange ==
    /\ \/ \E i \in 1..(Len(confDir) + 1), f \in ConfFiles :
            /\ Len(confDir) < MaxConfFiles
            /\ confDir' = SubSeq(confDir, 1, i - 1) \o <<f>> \o SubSeq(confDir, i, Len(confDir))
       \/ \E i \in 1..Len(confDir) : \E f \in ConfFiles \ {confDir[i]} :
            confDir' = [confDir EXCEPT ![i] = f]
       \/ \E i \in 1..Len(confDir) :
            confDir' = SubSeq(confDir, 1, i - 1) \o SubSeq(confDir, i + 1, Len(confDir))
    /\ UNCHANGED <<probed, loNetwork, defaultNetwork, podCidr, cev, cpc, cop, cseen, cret, ccalls>>
    /\ UNCHANGED notCniVars

\* cni.go 97-117: ProbeNetworkPlugins builds the plugin and syncs once
ProbeNetworkPlugins ==
    /\ ~probed
    /\ probed' = TRUE
    /\ \E lo \in BOOLEAN : loNetwork' = lo
    /\ defaultNetwork' = SyncedNetwork
    /\ UNCHANGED <<confDir, podCidr, cev, cpc, cop, cseen, cret, ccalls>>
    /\ UNCHANGED notCniVars

\* cni.go 173-183, 251-257: Init and Status call syncNetworkConfig
Status ==
    /\ probed
    /\ defaultNetwork' = SyncedNetwork
    /\ UNCHANGED <<confDir, probed, loNetwork, podCidr, cev, cpc, cop, cseen, cret, ccalls>>
    /\ UNCHANGED notCniVars

\* an Event that takes every pod CIDR it is given
EventOverwrites(name, str, val) ==
    /\ probed
    /\ cev' = [name |-> name, str |-> str, val |-> val]
    /\ IF name # PodCidrChange \/ ~str
       THEN UNCHANGED podCidr
       ELSE podCidr' = val
    /\ UNCHANGED <<confDir, probed, loNetwork, defaultNetwork, cpc, cop, cseen, cret, ccalls>>
    /\ UNCHANGED notCniVars

\* cni.go 223-245: Event(name, details); str says that the CIDR detail is a string
Event(name, str, val) ==
    /\ probed
    /\ cev' = [name |-> name, str |-> str, val |-> val]
    /\ IF name # PodCidrChange \/ ~str \/ podCidr # ""
       THEN UNCHANGED podCidr
       ELSE podCidr' = val
    /\ UNCHANGED <<confDir, probed, loNetwork, defaultNetwork, cpc, cop, cseen, cret, ccalls>>
    /\ UNCHANGED notCniVars

CReturn(r) ==
    /\ cpc' = "idle"
    /\ cret' = r

\* cni.go 259-262, 279-282: SetUpPod / TearDownPod start with checkInitialized
PodCall(op) ==
    /\ probed
    /\ cpc = "idle"
    /\ cop' = op
    /\ cseen' = <<defaultNetwork, podCidr>>
    /\ ccalls' = NoCniCalls
    /\ IF CheckInitialized # "nil"
       THEN CReturn(CheckInitialized)
       ELSE cpc' = "netns" /\ cret' = "none"
    /\ UNCHANGED <<confDir, probed, loNetwork, defaultNetwork, podCidr, cev>>
    /\ UNCHANGED notCniVars

\* cni.go 263-266, 284-288: GetNetNS; its error ends SetUpPod, TearDownPod goes on
PodGetNetNS ==
    /\ cpc = "netns"
    /\ \E ok \in BOOLEAN :
         IF ~ok /\ cop = "setup" THEN CReturn("netnsErr")
         ELSE /\ cpc' = IF cop = "teardown" THEN "del"
                        ELSE IF loNetwork THEN "lo" ELSE "add"
              /\ UNCHANGED cret
    /\ UNCHANGED <<confDir, probed, loNetwork, defaultNetwork, podCidr, cev, cop, cseen, ccalls>>
    /\ UNCHANGED notCniVars

\* cni.go 268-273, 297-314: addToNetwork(loNetwork); a failed
\* buildCNIRuntimeConf returns before AddNetworkList
PodAddLo ==
    /\ cpc = "lo"
    /\ \E r \in {"buildErr", "addErr", "ok"} :
         /\ ccalls' = IF r = "buildErr" THEN ccalls ELSE [ccalls EXCEPT !.add = @ + 1]
         /\ IF r = "ok" THEN cpc' = "add" /\ UNCHANGED cret ELSE CReturn(r)
    /\ UNCHANGED <<confDir, probed, loNetwork, defaultNetwork, podCidr, cev, cop, cseen>>
    /\ UNCHANGED notCniVars

\* cni.go 275-276, 297-314: addToNetwork(getDefaultNetwork())
PodAdd ==
    /\ cpc = "add"
    /\ \E r \in {"buildErr", "addErr", "nil"} :
         /\ ccalls' = IF r = "buildErr" THEN ccalls ELSE [ccalls EXCEPT !.add = @ + 1]
         /\ CReturn(r)
    /\ UNCHANGED <<confDir, probed, loNetwork, defaultNetwork, podCidr, cev, cop, cseen>>
    /\ UNCHANGED notCniVars

\* cni.go 290, 316-335: deleteFromNetwork(getDefaultNetwork())
PodDel ==
    /\ cpc = "del"
    /\ \E r \in {"buildErr", "delErr", "nil"} :
         /\ ccalls' = IF r = "buildErr" THEN ccalls ELSE [ccalls EXCEPT !.del = @ + 1]
         /\ CReturn(r)
    /\ UNCHANGED <<confDir, probed, loNetwork, defaultNetwork, podCidr, cev, cop, cseen>>
    /\ UNCHANGED notCniVars

NextCni ==
    \/ ConfDirChange
    \/ ProbeNetworkPlugins
    \/ Status
    \/ \E e \in Events : Event(e.name, e.str, e.val)
    \/ \E op \in {"setup", "teardown"} : PodCall(op)
    \/ PodGetNetNS
    \/ PodAddLo
    \/ PodAdd
    \/ PodDel

(***************************************************************************)
(* bootstrap.LoadClientCert                                                *)
(***************************************************************************)
NoEffects ==
    [bootstrap |-> FALSE,   \* loaded the bootstrap kubeconfig
     key       |-> FALSE,   \* called LoadOrGenerateKeyFile
     server    |-> FALSE,   \* sent a request to the API server
     waitFailed |-> FALSE,  \* waitForServer returned an error
     certified |-> FALSE,   \* RequestNodeCertificate succeeded
     updated   |-> FALSE,   \* store.Update succeeded
     wrote     |-> FALSE,   \* wrote a file
     removed   |-> FALSE,   \* removed a file
     kubeWritten |-> FALSE] \* wrote to kubeconfigPath

NoPrev == [ret |-> "none", key |-> 0]

NoAuth == <<"", "">>

\* store.CurrentPath(): the symlink to the store's current certificate and key
CurrentPath == "kubelet-client-current.pem"

InitBoot ==
    /\ kubeconfig = "absent"
    /\ kubeAuth = NoAuth
    /\ storeKey = 0
    /\ tmpKey = 0
    /\ nextKey = 1
    /\ bpc = "idle"
    /\ keyData = 0
    /\ bsrc = "none"
    /\ bret = "none"
    /\ beff = NoEffects
    /\ bseen = [stat |-> "none", kind |-> "absent"]
    /\ bstart = <<0, 0>>
    /\ bprev = NoPrev
    /\ bcsr = 0

\* what os.Stat(kubeconfigPath) can answer for the file
KubeconfigStats(kind) ==
    IF kind = "absent" THEN {"notExist", "error"} ELSE {"ok", "error"}

\* a check that accepts an expired client certificate
VerifyIgnoringExpiry(stat, kind) ==
    IF stat = "notExist" THEN [ok |-> FALSE, err |-> FALSE]
    ELSE IF stat = "error" THEN [ok |-> FALSE, err |-> TRUE]
    ELSE IF kind \in {"corrupt", "nocert"} THEN [ok |-> FALSE, err |-> FALSE]
    ELSE [ok |-> TRUE, err |-> FALSE]

\* bootstrap.go 170-210: verifyBootstrapClientConfig
verifyBootstrapClientConfig(stat, kind) ==
    IF stat = "notExist" THEN [ok |-> FALSE, err |-> FALSE]
    ELSE IF stat = "error" THEN [ok |-> FALSE, err |-> TRUE]
    ELSE IF kind = "corrupt" THEN [ok |-> FALSE, err |-> FALSE]
    ELSE IF kind = "nocert" THEN [ok |-> FALSE, err |-> FALSE]
    ELSE IF kind = "expired" THEN [ok |-> FALSE, err |-> FALSE]
    ELSE [ok |-> TRUE, err |-> FALSE]

\* bootstrap.go 213-219: verifyKeyData
verifyKeyData(data) == data # 0

BReturn(r) ==
    /\ bpc' = "idle"
    /\ bret' = r

\* the node is provisioned with a kubeconfig that holds no client certificate
\* (token credentials) or that does not load
KubeconfigProvisioned ==
    /\ bpc = "idle"
    /\ kubeconfig = "absent"
    /\ kubeconfig' \in {"nocert", "corrupt"}
    /\ UNCHANGED <<kubeAuth, storeKey, tmpKey, nextKey, bpc, keyData, bsrc, bret, beff, bseen, bstart,
                   bprev, bcsr>>
    /\ UNCHANGED notBootVars

\* the client certificate of the kubeconfig passes its NotAfter
KubeconfigExpires ==
    /\ kubeconfig = "valid"
    /\ kubeconfig' = "expired"
    /\ UNCHANGED <<kubeAuth, storeKey, tmpKey, nextKey, bpc, keyData, bsrc, bret, beff, bseen, bstart,
                   bprev, bcsr>>
    /\ UNCHANGED notBootVars

\* bootstrap.go 50-59: LoadClientCert starts with verifyBootstrapClientConfig
LoadClientCertCall ==
    /\ bpc = "idle"
    /\ bprev' = [ret |-> bret, key |-> keyData]
    /\ keyData' = 0
    /\ bsrc' = "none"
    /\ beff' = NoEffects
    /\ bstart' = <<storeKey, tmpKey>>
    /\ bcsr' = 0
    /\ \E stat \in KubeconfigStats(kubeconfig) :
         /\ bseen' = [stat |-> stat, kind |-> kubeconfig]
         /\ IF verifyBootstrapClientConfig(stat, kubeconfig).err THEN BReturn("statErr")
            ELSE IF verifyBootstrapClientConfig(stat, kubeconfig).ok THEN BReturn("nil")
            ELSE bpc' = "bootstrap" /\ bret' = "none"
    /\ UNCHANGED <<kubeconfig, kubeAuth, storeKey, tmpKey, nextKey>>
    /\ UNCHANGED notBootVars

\* bootstrap.go 63-76: the bootstrap kubeconfig, the CSR client and the store
BootLoadBootstrap ==
    /\ bpc = "bootstrap"
    /\ beff' = [beff EXCEPT !.bootstrap = TRUE]
    /\ \E ok \in BOOLEAN :
         IF ok THEN bpc' = "key" /\ UNCHANGED bret ELSE BReturn("bootstrapErr")
    /\ UNCHANGED <<kubeconfig, kubeAuth, storeKey, tmpKey, nextKey, keyData, bsrc, bseen, bstart, bprev,
                   bcsr>>
    /\ UNCHANGED notBootVars

\* certutil.LoadOrGenerateKeyFile: the key of the file when it can be read, an
\* error when it exists and cannot, a new key written to it when it is absent
LoadOrGenerateKeyFile ==
    \/ /\ tmpKey # 0
       /\ beff' = [beff EXCEPT !.key = TRUE]
       /\ \E readOk \in BOOLEAN :
            IF readOk
            THEN /\ keyData' = tmpKey
                 /\ bsrc' = "file"
                 /\ bpc' = "wait"
                 /\ UNCHANGED bret
            ELSE /\ BReturn("keyErr")
                 /\ UNCHANGED <<keyData, bsrc>>
       /\ UNCHANGED <<tmpKey, nextKey>>
    \/ /\ tmpKey = 0
       /\ nextKey <= MaxKeys
       /\ nextKey' = nextKey + 1
       /\ \E writeOk \in BOOLEAN :
            IF writeOk
            THEN /\ tmpKey' = nextKey
                 /\ keyData' = nextKey
                 /\ bsrc' = "generated"
                 /\ beff' = [beff EXCEPT !.key = TRUE, !.wrote = TRUE]
                 /\ bpc' = "wait"
                 /\ UNCHANGED bret
            ELSE /\ BReturn("keyErr")
                 /\ beff' = [beff EXCEPT !.key = TRUE]
                 /\ UNCHANGED <<tmpKey, keyData, bsrc>>

\* bootstrap.go 78-99: keyData from the store's current certificate, otherwise
\* from LoadOrGenerateKeyFile(privKeyPath)
BootKey ==
    /\ bpc = "key"
    /\ IF verifyKeyData(storeKey)
       THEN /\ keyData' = storeKey
            /\ bsrc' = "store"
            /\ bpc' = "wait"
            /\ UNCHANGED <<tmpKey, nextKey, beff, bret>>
       ELSE LoadOrGenerateKeyFile
    /\ UNCHANGED <<kubeconfig, kubeAuth, storeKey, bseen, bstart, bprev, bcsr>>
    /\ UNCHANGED notBootVars

\* a waitForServer step whose error ends the bootstrap
BootWaitForServerAborts ==
    /\ bpc = "wait"
    /\ \E connected \in BOOLEAN :
         /\ beff' = [beff EXCEPT !.server = TRUE, !.waitFailed = ~connected]
         /\ IF connected THEN bpc' = "csr" /\ UNCHANGED bret ELSE BReturn("waitErr")
    /\ UNCHANGED <<kubeconfig, kubeAuth, storeKey, tmpKey, nextKey, keyData, bsrc, bseen, bstart,
                   bprev, bcsr>>
    /\ UNCHANGED notBootVars

\* bootstrap.go 101-103, 221-246: waitForServer; its error is only logged
BootWaitForServer ==
    /\ bpc = "wait"
    /\ bpc' = "csr"
    /\ \E connected \in BOOLEAN :
         beff' = [beff EXCEPT !.server = TRUE, !.waitFailed = ~connected]
    /\ UNCHANGED <<kubeconfig, kubeAuth, storeKey, tmpKey, nextKey, keyData, bsrc, bret, bseen, bstart,
                   bprev, bcsr>>
    /\ UNCHANGED notBootVars

\* bootstrap.go 105-108: csr.RequestNodeCertificate(client, keyData, nodeName)
BootRequestNodeCertificate ==
    /\ bpc = "csr"
    /\ bcsr' = keyData
    /\ \E ok \in BOOLEAN :
         /\ beff' = [beff EXCEPT !.server = TRUE, !.certified = ok]
         /\ IF ok THEN bpc' = "update" /\ UNCHANGED bret ELSE BReturn("csrErr")
    /\ UNCHANGED <<kubeconfig, kubeAuth, storeKey, tmpKey, nextKey, keyData, bsrc, bseen, bstart, bprev>>
    /\ UNCHANGED notBootVars

\* a store.Update step whose failure also cleans up the temporary key file
BootStoreUpdateCleansUp ==
    /\ bpc = "update"
    /\ \E ok \in BOOLEAN :
         IF ok
         THEN /\ storeKey' = keyData
              /\ beff' = [beff EXCEPT !.updated = TRUE, !.wrote = TRUE]
              /\ bpc' = "remove"
              /\ UNCHANGED <<bret, tmpKey>>
         ELSE /\ BReturn("updateErr")
              /\ tmpKey' = 0
              /\ beff' = [beff EXCEPT !.removed = TRUE]
              /\ UNCHANGED storeKey
    /\ UNCHANGED <<kubeconfig, kubeAuth, nextKey, keyData, bsrc, bseen, bstart, bprev, bcsr>>
    /\ UNCHANGED notBootVars

\* bootstrap.go 109-111: store.Update(certData, keyData); a failed update leaves
\* the store's current certificate as it was
BootStoreUpdate ==
    /\ bpc = "update"
    /\ \E ok \in BOOLEAN :
         IF ok
         THEN /\ storeKey' = keyData
              /\ beff' = [beff EXCEPT !.updated = TRUE, !.wrote = TRUE]
              /\ bpc' = "remove"
              /\ UNCHANGED <<bret, tmpKey>>
         ELSE /\ BReturn("updateErr")
              /\ UNCHANGED <<storeKey, beff, tmpKey>>
    /\ UNCHANGED <<kubeconfig, kubeAuth, nextKey, keyData, bsrc, bseen, bstart, bprev, bcsr>>
    /\ UNCHANGED notBootVars

\* bootstrap.go 112-114: os.Remove(privKeyPath); its error is only logged
BootRemoveKeyFile ==
    /\ bpc = "remove"
    /\ bpc' = "write"
    /\ \E ok \in BOOLEAN :
         IF ok /\ tmpKey # 0
         THEN tmpKey' = 0 /\ beff' = [beff EXCEPT !.removed = TRUE]
         ELSE UNCHANGED <<tmpKey, beff>>
    /\ UNCHANGED <<kubeconfig, kubeAuth, storeKey, nextKey, keyData, bsrc, bret, bseen, bstart, bprev,
                   bcsr>>
    /\ UNCHANGED notBootVars

\* bootstrap.go 116-148: clientcmd.WriteToFile(kubeconfigData, kubeconfigPath);
\* the kubeconfig names store.CurrentPath() as client certificate and key
BootWriteKubeconfig ==
    /\ bpc = "write"
    /\ \E r \in {"written", "truncated", "untouched"} :
         /\ kubeconfig' = CASE r = "written" -> "valid"
                            [] r = "truncated" -> "corrupt"
                            [] OTHER -> kubeconfig
         /\ kubeAuth' = CASE r = "written" -> <<CurrentPath, CurrentPath>>
                          [] r = "truncated" -> NoAuth
                          [] OTHER -> kubeAuth
         /\ beff' = IF r = "untouched" THEN beff
                    ELSE [beff EXCEPT !.wrote = TRUE, !.kubeWritten = TRUE]
         /\ BReturn(IF r = "written" THEN "nil" ELSE "writeErr")
    /\ UNCHANGED <<storeKey, tmpKey, nextKey, keyData, bsrc, bseen, bstart, bprev, bcsr>>
    /\ UNCHANGED notBootVars

NextBoot ==
    \/ KubeconfigProvisioned
    \/ KubeconfigExpires
    \/ LoadClientCertCall
    \/ BootLoadBootstrap
    \/ BootKey
    \/ BootWaitForServer
    \/ BootRequestNodeCertificate
    \/ BootStoreUpdate
    \/ BootRemoveKeyFile
    \/ BootWriteKubeconfig

(***************************************************************************)
(* GetVolumeLimits of the AWS EBS and GCE PD plugins                       *)
(***************************************************************************)
\* gce_pd.go 63-72
OneCPU == 1
EightCPUs == 8
VolumeLimit16 == 16
VolumeLimit32 == 32
VolumeLimit64 == 64
VolumeLimit128 == 128

\* pkg/volume/util/attach_limit.go
DefaultMaxEBSVolumes == 39
DefaultMaxEBSNitroVolumeLimit == 25
EBSVolumeLimitKey == "attachable-volumes-aws-ebs"
GCEVolumeLimitKey == "attachable-volumes-gce-pd"

\* the nil map
NoLimits == <<>>

\* what host.GetCloudProvider() gives: nil, or a provider by its ProviderName()
CloudProviders == {"nil", "aws", "gce", "azure"}

\* instance types, as sequences of characters ("s" abbreviates a machine class)
AwsInstanceTypes ==
    {<<"t", "2", ".", "s">>, <<"m", "4", ".", "s">>, <<"c", "5", ".", "s">>,
     <<"r", "5", "d", ".", "s">>, <<"t", "3", ".", "s">>, <<"z", "1", "d", ".", "s">>}

GceInstanceTypes ==
    {<<"n", "1", "-", "s", "-", "1">>, <<"n", "1", "-", "s", "-", "4">>,
     <<"n", "1", "-", "s", "-", "8">>, <<"n", "1", "-", "s", "-", "1", "6">>,
     <<"n", "1", "-", "s">>, <<"n", "1", "-", "s", "-", "s">>,
     <<"f", "1", "-", "s">>, <<"s", "-", "4", "-", "1">>}

Digits == {"0", "1", "2", "3", "4", "5", "6", "7", "8", "9"}

DigitVal(c) ==
    CASE c = "0" -> 0 [] c = "1" -> 1 [] c = "2" -> 2 [] c = "3" -> 3 [] c = "4" -> 4
      [] c = "5" -> 5 [] c = "6" -> 6 [] c = "7" -> 7 [] c = "8" -> 8 [] c = "9" -> 9

\* strings.HasPrefix
HasPrefix(str, prefix) ==
    Len(str) >= Len(prefix) /\ SubSeq(str, 1, Len(prefix)) = prefix

\* strings.Contains
Contains(str, sub) ==
    \E i \in 1..(Len(str) - Len(sub) + 1) : SubSeq(str, i, i + Len(sub) - 1) = sub

RECURSIVE SplitFrom(_, _, _)
\* strings.Split(str, sep) for a one-character sep; cur is the piece being read
SplitFrom(str, sep, cur) ==
    IF str = <<>> THEN <<cur>>
    ELSE IF Head(str) = sep THEN <<cur>> \o SplitFrom(Tail(str), sep, <<>>)
    ELSE SplitFrom(Tail(str), sep, Append(cur, Head(str)))

Split(str, sep) == SplitFrom(str, sep, <<>>)

RECURSIVE AtoiFrom(_, _)
AtoiFrom(str, acc) ==
    IF str = <<>> THEN acc ELSE AtoiFrom(Tail(str), 10 * acc + DigitVal(Head(str)))

\* strconv.Atoi on an unsigned decimal: [ok, num]
Atoi(str) ==
    IF str # <<>> /\ \A i \in 1..Len(str) : str[i] \in Digits
    THEN [ok |-> TRUE, num |-> AtoiFrom(str, 0)]
    ELSE [ok |-> FALSE, num |-> 0]

\* regexp.MatchString(util.EBSNitroLimitRegex, t), the regex "^[cmr]5.*|t3|z1d"
MatchesEBSNitroLimitRegex(t) ==
    \/ Len(t) >= 2 /\ t[1] \in {"c", "m", "r"} /\ t[2] = "5"
    \/ Contains(t, <<"t", "3">>)
    \/ Contains(t, <<"z", "1", "d">>)

\* a GetVolumeLimits that gives up when the instance lookup fails
AwsGetVolumeLimitsStrict(cloud, instancesOk, typeErr, instanceType) ==
    IF cloud = "nil" THEN [limits |-> NoLimits, err |-> "noCloudProvider"]
    ELSE IF cloud # "aws" THEN [limits |-> NoLimits, err |-> "wrongCloud"]
    ELSE IF ~instancesOk THEN [limits |-> NoLimits, err |-> "noInstances"]
    ELSE IF typeErr THEN [limits |-> NoLimits, err |-> "instanceType"]
    ELSE IF MatchesEBSNitroLimitRegex(instanceType)
    THEN [limits |-> <<EBSVolumeLimitKey, DefaultMaxEBSNitroVolumeLimit>>, err |-> "nil"]
    ELSE [limits |-> <<EBSVolumeLimitKey, DefaultMaxEBSVolumes>>, err |-> "nil"]

\* aws_ebs.go 99-135: awsElasticBlockStorePlugin.GetVolumeLimits
AwsGetVolumeLimits(cloud, instancesOk, typeErr, instanceType) ==
    IF cloud = "nil" THEN [limits |-> NoLimits, err |-> "noCloudProvider"]
    ELSE IF cloud # "aws" THEN [limits |-> NoLimits, err |-> "wrongCloud"]
    ELSE IF ~instancesOk THEN [limits |-> <<EBSVolumeLimitKey, DefaultMaxEBSVolumes>>, err |-> "nil"]
    ELSE IF typeErr THEN [limits |-> <<EBSVolumeLimitKey, DefaultMaxEBSVolumes>>, err |-> "nil"]
    ELSE IF MatchesEBSNitroLimitRegex(instanceType)
    THEN [limits |-> <<EBSVolumeLimitKey, DefaultMaxEBSNitroVolumeLimit>>, err |-> "nil"]
    ELSE [limits |-> <<EBSVolumeLimitKey, DefaultMaxEBSVolumes>>, err |-> "nil"]

\* gce_pd.go 145-162: the limit for an instance type
GceLimitForType(instanceType) ==
    IF ~HasPrefix(instanceType, <<"n", "1", "-">>) THEN VolumeLimit16
    ELSE IF Len(Split(instanceType, "-")) < 3 THEN VolumeLimit16
    ELSE IF ~Atoi(Split(instanceType, "-")[3]).ok THEN VolumeLimit16
    ELSE IF Atoi(Split(instanceType, "-")[3]).num = OneCPU THEN VolumeLimit32
    ELSE IF Atoi(Split(instanceType, "-")[3]).num < EightCPUs THEN VolumeLimit64
    ELSE VolumeLimit128

\* gce_pd.go 120-166: gcePersistentDiskPlugin.GetVolumeLimits
GceGetVolumeLimits(cloud, instancesOk, typeErr, instanceType) ==
    IF cloud = "nil" THEN [limits |-> NoLimits, err |-> "noCloudProvider"]
    ELSE IF cloud # "gce" THEN [limits |-> NoLimits, err |-> "wrongCloud"]
    ELSE IF ~instancesOk THEN [limits |-> <<GCEVolumeLimitKey, VolumeLimit16>>, err |-> "nil"]
    ELSE IF typeErr THEN [limits |-> <<GCEVolumeLimitKey, VolumeLimit16>>, err |-> "nil"]
    ELSE [limits |-> <<GCEVolumeLimitKey, GceLimitForType(instanceType)>>, err |-> "nil"]

InitLimits ==
    vl = [plugin |-> "none", cloud |-> "nil", instancesOk |-> FALSE, typeErr |-> FALSE,
          instanceType |-> <<>>, limits |-> NoLimits, err |-> "none"]

\* a call of the AWS EBS plugin's GetVolumeLimits
AwsGetVolumeLimitsCall ==
    /\ \E cloud \in CloudProviders, instancesOk \in BOOLEAN, typeErr \in BOOLEAN,
          instanceType \in AwsInstanceTypes :
         vl' = [plugin |-> "aws", cloud |-> cloud, instancesOk |-> instancesOk,
                typeErr |-> typeErr, instanceType |-> instanceType,
                limits |-> AwsGetVolumeLimits(cloud, instancesOk, typeErr, instanceType).limits,
                err |-> AwsGetVolumeLimits(cloud, instancesOk, typeErr, instanceType).err]
    /\ UNCHANGED notLimitVars

\* a call of the GCE PD plugin's GetVolumeLimits
GceGetVolumeLimitsCall ==
    /\ \E cloud \in CloudProviders, instancesOk \in BOOLEAN, typeErr \in BOOLEAN,
          instanceType \in GceInstanceTypes :
         vl' = [plugin |-> "gce", cloud |-> cloud, instancesOk |-> instancesOk,
                typeErr |-> typeErr, instanceType |-> instanceType,
                limits |-> GceGetVolumeLimits(cloud, instancesOk, typeErr, instanceType).limits,
                err |-> GceGetVolumeLimits(cloud, instancesOk, typeErr, instanceType).err]
    /\ UNCHANGED notLimitVars

NextLimits ==
    \/ AwsGetVolumeLimitsCall
    \/ GceGetVolumeLimitsCall

(***************************************************************************)
(* kubectl cordon / uncordon / drain                                       *)
(***************************************************************************)
\* the controller kinds of a pod's controller reference ("none": a naked pod)
OwnerKinds == {"none", "ReplicationController", "ReplicaSet", "Job", "DaemonSet"}

PodPhases == {"Running", "Succeeded", "Failed"}

\* a pod of the node: its controller reference, whether a GET of that DaemonSet
\* finds it, its phase, and whether it has an emptyDir volume
PodKinds ==
    {[owner |-> o, dsFound |-> f, phase |-> ph, emptyDir |-> e] :
        o \in OwnerKinds, f \in BOOLEAN, ph \in PodPhases, e \in BOOLEAN}

\* dsFound is told apart for DaemonSet pods only
Pods == {pod \in PodKinds : pod.owner # "DaemonSet" => pod.dsFound}

RECURSIVE SetsUpTo(_, _)
\* the subsets of S of at most n elements
SetsUpTo(S, n) ==
    IF n = 0 THEN {{}}
    ELSE SetsUpTo(S, n - 1) \cup {T \cup {x} : T \in SetsUpTo(S, n - 1), x \in S}

DrainFlags == [force : BOOLEAN, ignoreDaemonsets : BOOLEAN, deleteLocalData : BOOLEAN]

NoFlags == [force |-> FALSE, ignoreDaemonsets |-> FALSE, deleteLocalData |-> FALSE]

InitDrain ==
    dr = [pc |-> "init", cmd |-> "none",
          nodeExists |-> FALSE, unschedulable |-> FALSE, startUnschedulable |-> FALSE,
          pods |-> {}, flags |-> NoFlags, eviction |-> FALSE,
          fatal |-> FALSE, patches |-> <<>>, pending |-> {}, deleted |-> {}, evicted |-> {}]

\* a pod that has finished can always be removed
Finished(pod) == pod.phase \in {"Succeeded", "Failed"}

\* each filter answers [ok, fatal]
FilterPass == [ok |-> TRUE, fatal |-> FALSE]
FilterSkip == [ok |-> FALSE, fatal |-> FALSE]
FilterFatal == [ok |-> FALSE, fatal |-> TRUE]

\* DrainOptions.daemonsetFilter
daemonsetFilter(pod, o) ==
    IF pod.owner # "DaemonSet" THEN FilterPass
    ELSE IF Finished(pod) THEN FilterPass
    ELSE IF ~pod.dsFound THEN (IF o.force THEN FilterPass ELSE FilterFatal)
    ELSE IF ~o.ignoreDaemonsets THEN FilterFatal
    ELSE FilterSkip

\* DrainOptions.localStorageFilter
localStorageFilter(pod, o) ==
    IF ~pod.emptyDir THEN FilterPass
    ELSE IF Finished(pod) THEN FilterPass
    ELSE IF ~o.deleteLocalData THEN FilterFatal
    ELSE FilterPass

\* a filter that lets a finished naked pod stop the drain
unreplicatedFilterNoFinished(pod, o) ==
    IF pod.owner # "none" THEN FilterPass
    ELSE IF o.force THEN FilterPass
    ELSE FilterFatal

\* DrainOptions.unreplicatedFilter
unreplicatedFilter(pod, o) ==
    IF Finished(pod) THEN FilterPass
    ELSE IF pod.owner # "none" THEN FilterPass
    ELSE IF o.force THEN FilterPass
    ELSE FilterFatal

\* the filters of getPodsForDeletion applied to one pod
PodOk(pod, o) ==
    daemonsetFilter(pod, o).ok /\ localStorageFilter(pod, o).ok /\ unreplicatedFilter(pod, o).ok

PodFatal(pod, o) ==
    \/ daemonsetFilter(pod, o).fatal
    \/ localStorageFilter(pod, o).fatal
    \/ unreplicatedFilter(pod, o).fatal

\* DrainOptions.getPodsForDeletion: no pods and an error when a filter is fatal
getPodsForDeletion(pods, o) ==
    IF \E pod \in pods : PodFatal(pod, o)
    THEN [pods |-> {}, fatal |-> TRUE]
    ELSE [pods |-> {pod \in pods : PodOk(pod, o)}, fatal |-> FALSE]

\* a patch that sets the field whatever the desired value
CordonPatchAlwaysSets(desired) == "true"

\* the merge patch RunCordonOrUncordon sends for the desired value
CordonPatch(desired) == IF desired THEN "true" ELSE "null"

\* the server applies a patch of spec.unschedulable
ApplyPatch(patch) == patch = "true"

\* DrainOptions.RunCordonOrUncordon(desired) on the command's record
CordonOrUncordon(d, desired) ==
    IF d.unschedulable = desired THEN d
    ELSE [d EXCEPT !.patches = Append(@, CordonPatch(desired)),
                   !.unschedulable = ApplyPatch(CordonPatch(desired))]

\* the command line and the server's state it runs against
DrainStart(cmd, exists, unsched) ==
    [dr EXCEPT !.cmd = cmd, !.nodeExists = exists, !.unschedulable = unsched,
               !.startUnschedulable = unsched]

\* kubectl cordon NODE / kubectl uncordon NODE
CordonCall(cmd) ==
    /\ dr.pc = "init"
    /\ \E exists \in BOOLEAN, unsched \in BOOLEAN :
         dr' = IF ~exists
               THEN [DrainStart(cmd, exists, unsched) EXCEPT !.pc = "done", !.fatal = TRUE]
               ELSE [CordonOrUncordon(DrainStart(cmd, exists, unsched), cmd = "cordon")
                        EXCEPT !.pc = "done"]
    /\ UNCHANGED notDrainVars

\* kubectl drain NODE: RunDrain cordons the node and lists the pods to delete
DrainCall ==
    /\ dr.pc = "init"
    /\ \E exists \in BOOLEAN, unsched \in BOOLEAN, pods \in SetsUpTo(Pods, MaxPods),
          o \in DrainFlags, eviction \in BOOLEAN :
         dr' = IF ~exists
               THEN [DrainStart("drain", exists, unsched) EXCEPT !.pc = "done", !.fatal = TRUE]
               ELSE [CordonOrUncordon(DrainStart("drain", exists, unsched), TRUE)
                        EXCEPT !.pods = pods, !.flags = o, !.eviction = eviction,
                               !.fatal = getPodsForDeletion(pods, o).fatal,
                               !.pending = getPodsForDeletion(pods, o).pods,
                               !.pc = IF getPodsForDeletion(pods, o).fatal
                                      THEN "done" ELSE "deleting"]
    /\ UNCHANGED notDrainVars

\* DrainOptions.deleteOrEvictPods: evictions when the server advertises the
\* eviction subresource, deletes otherwise
DrainDeleteOrEvictPods ==
    /\ dr.pc = "deleting"
    /\ dr' = [dr EXCEPT !.pc = "done",
                        !.pending = {},
                        !.pods = @ \ dr.pending,
                        !.evicted = IF dr.eviction THEN dr.pending ELSE {},
                        !.deleted = IF dr.eviction THEN {} ELSE dr.pending]
    /\ UNCHANGED notDrainVars

NextDrain ==
    \/ \E cmd \in {"cordon", "uncordon"} : CordonCall(cmd)
    \/ DrainCall
    \/ DrainDeleteOrEvictPods

(***************************************************************************)
(* DrainOptions.waitForDelete                                              *)
(***************************************************************************)
\* the pods handed to waitForDelete, by name
PodNames == 1..MaxPods

\* what the server holds under a pod's name: the pod handed in, a new pod of
\* the same name with another UID, or nothing
ServerPods == {"old", "new", "gone"}

\* what a lookup of a name can answer
LookupOutcomes(held) ==
    {"error"} \cup {CASE held = "old" -> "sameUID"
                      [] held = "new" -> "otherUID"
                      [] OTHER -> "notFound"}

InitWaitDelete ==
    wd = [pc |-> "init", given |-> {}, timeout |-> 0, tick |-> 0,
          server |-> [i \in PodNames |-> "old"],
          seen |-> [i \in PodNames |-> "none"],
          pods |-> {}, err |-> "none"]

\* a poll that takes a pod with another UID for the pod it waits for
IsGoneByNameOnly(outcome) == outcome = "notFound"

\* the pod is gone: NotFound, or a pod with a different UID
IsGone(outcome) == outcome \in {"notFound", "otherUID"}

\* the call o.waitForDelete(pods, interval, timeout, usingEviction, getPodFn)
WaitForDeleteCall ==
    /\ wd.pc = "init"
    /\ \E given \in SUBSET PodNames, timeout \in 1..MaxWaitTicks :
         wd' = [wd EXCEPT !.pc = "poll", !.given = given, !.pods = given,
                          !.timeout = timeout]
    /\ UNCHANGED notWaitDeleteVars

\* the lookups of one poll, in the order of the list: answer[i] for each pod
\* still pending; the poll stops at the first lookup error
FirstError(answer) ==
    IF \E i \in wd.pods : answer[i] = "error"
    THEN CHOOSE i \in wd.pods :
           answer[i] = "error" /\ \A j \in wd.pods : answer[j] = "error" => i <= j
    ELSE 0

\* one run of the condition function of wait.PollImmediate
WaitForDeletePoll ==
    /\ wd.pc = "poll"
    /\ \E answer \in [PodNames -> {"error", "sameUID", "otherUID", "notFound"}] :
         /\ \A i \in PodNames :
              IF i \in wd.pods THEN answer[i] \in LookupOutcomes(wd.server[i])
              ELSE answer[i] = "notFound"
         /\ IF FirstError(answer) # 0
            THEN wd' = [wd EXCEPT
                          !.seen = [i \in PodNames |->
                                      IF i \in wd.pods /\ i <= FirstError(answer)
                                      THEN answer[i] ELSE wd.seen[i]],
                          !.err = "lookupErr",
                          !.pc = "done"]
            ELSE wd' = [wd EXCEPT
                          !.seen = [i \in PodNames |->
                                      IF i \in wd.pods THEN answer[i] ELSE wd.seen[i]],
                          !.pods = {i \in wd.pods : ~IsGone(answer[i])},
                          !.err = IF {i \in wd.pods : ~IsGone(answer[i])} = {} THEN "nil"
                                  ELSE IF wd.tick >= wd.timeout THEN "ErrWaitTimeout"
                                  ELSE "none",
                          !.tick = IF {i \in wd.pods : ~IsGone(answer[i])} # {}
                                      /\ wd.tick < wd.timeout
                                   THEN wd.tick + 1 ELSE wd.tick,
                          !.pc = IF {i \in wd.pods : ~IsGone(answer[i])} # {}
                                    /\ wd.tick < wd.timeout
                                 THEN "poll" ELSE "done"]
    /\ UNCHANGED notWaitDeleteVars

\* the kubelet finishes deleting a pod
PodDeleted(i) ==
    /\ wd.pc = "poll"
    /\ wd.server[i] = "old"
    /\ wd' = [wd EXCEPT !.server[i] = "gone"]
    /\ UNCHANGED notWaitDeleteVars

\* a controller creates a pod of the same name again
PodRecreated(i) ==
    /\ wd.pc = "poll"
    /\ wd.server[i] = "gone"
    /\ wd' = [wd EXCEPT !.server[i] = "new"]
    /\ UNCHANGED notWaitDeleteVars

NextWaitDelete ==
    \/ WaitForDeleteCall
    \/ WaitForDeletePoll
    \/ \E i \in PodNames : PodDeleted(i)
    \/ \E i \in PodNames : PodRecreated(i)

(***************************************************************************)
(* serviceCache                                                            *)
(***************************************************************************)
\* most service names the cache is asked about
MaxServices == 2

\* the service names, "addTest" and "addTest1" in TestServiceCache
ServiceNames == 1..MaxServices

\* what cachedService.state points to: nothing yet, or a service
ServiceStates == {"nil", "svcA", "svcB"}

\* no result: the last operation was not a read
NoCacheRet == [ok |-> FALSE, value |-> "nil", err |-> "nil", list |-> <<>>]

\* sc := &serviceCache{serviceMap: make(map[string]*cachedService)}
InitCache ==
    sc = [serviceMap |-> <<>>, present |-> {}, before |-> {}, op |-> "none",
          key |-> 0, added |-> 0, ret |-> NoCacheRet]

\* the orders in which a range over the map can visit its keys
RangeOrders(map) ==
    {order \in [1..Cardinality(DOMAIN map) -> DOMAIN map] :
        \A i, j \in 1..Cardinality(DOMAIN map) : order[i] = order[j] => i = j}

\* the map with one entry stored
MapStore(map, k, v) == [x \in (DOMAIN map) \cup {k} |-> IF x = k THEN v ELSE map[x]]

\* a delete that leaves the entry in the map
MapDeleteKeeps(map, k) == map

\* the map with one entry removed
MapDelete(map, k) == [x \in (DOMAIN map) \ {k} |-> map[x]]

\* the record of a call: the operation, its key, the keys present before it,
\* the keys present after it, the number of entries it added and its result
CacheCall(op, k, map, present, ret) ==
    sc' = [serviceMap |-> map, present |-> present, before |-> sc.present,
           op |-> op, key |-> k,
           added |-> Cardinality(DOMAIN map) - Cardinality(DOMAIN sc.serviceMap),
           ret |-> ret]

\* serviceCache.getOrCreate(serviceName)
CacheGetOrCreate(k) ==
    /\ IF k \in DOMAIN sc.serviceMap
       THEN CacheCall("getOrCreate", k, sc.serviceMap, sc.present \cup {k},
                      [NoCacheRet EXCEPT !.ok = TRUE, !.value = sc.serviceMap[k]])
       ELSE CacheCall("getOrCreate", k, MapStore(sc.serviceMap, k, "nil"),
                      sc.present \cup {k}, [NoCacheRet EXCEPT !.ok = TRUE])
    /\ UNCHANGED notCacheVars

\* serviceCache.set(serviceName, service)
CacheSet(k, v) ==
    /\ CacheCall("set", k, MapStore(sc.serviceMap, k, v), sc.present \cup {k}, NoCacheRet)
    /\ UNCHANGED notCacheVars

\* serviceCache.delete(serviceName)
CacheDelete(k) ==
    /\ CacheCall("delete", k, MapDelete(sc.serviceMap, k), sc.present \ {k}, NoCacheRet)
    /\ UNCHANGED notCacheVars

\* serviceCache.get(serviceName)
CacheGet(k) ==
    /\ CacheCall("get", k, sc.serviceMap, sc.present,
                 IF k \in DOMAIN sc.serviceMap
                 THEN [NoCacheRet EXCEPT !.ok = TRUE, !.value = sc.serviceMap[k]]
                 ELSE NoCacheRet)
    /\ UNCHANGED notCacheVars

\* serviceCache.GetByKey(key)
CacheGetByKey(k) ==
    /\ CacheCall("GetByKey", k, sc.serviceMap, sc.present,
                 IF k \in DOMAIN sc.serviceMap
                 THEN [NoCacheRet EXCEPT !.ok = TRUE, !.value = sc.serviceMap[k]]
                 ELSE NoCacheRet)
    /\ UNCHANGED notCacheVars

\* serviceCache.ListKeys()
CacheListKeys ==
    /\ \E order \in RangeOrders(sc.serviceMap) :
         CacheCall("ListKeys", 0, sc.serviceMap, sc.present,
                   [NoCacheRet EXCEPT !.list = order])
    /\ UNCHANGED notCacheVars

\* serviceCache.allServices()
CacheAllServices ==
    /\ \E order \in RangeOrders(sc.serviceMap) :
         CacheCall("allServices", 0, sc.serviceMap, sc.present,
                   [NoCacheRet EXCEPT
                      !.list = [i \in 1..Len(order) |-> sc.serviceMap[order[i]]]])
    /\ UNCHANGED notCacheVars

NextCache ==
    \/ \E k \in ServiceNames : CacheGetOrCreate(k)
    \/ \E k \in ServiceNames, v \in ServiceStates \ {"nil"} : CacheSet(k, v)
    \/ \E k \in ServiceNames : CacheDelete(k)
    \/ \E k \in ServiceNames : CacheGet(k)
    \/ \E k \in ServiceNames : CacheGetByKey(k)
    \/ CacheListKeys
    \/ CacheAllServices

(***************************************************************************)
(* util.GenerateVolumeName and azureFileProvisioner.Provision              *)
(***************************************************************************)
\* longest cluster name and longest generated PV name tried
MaxClusterNameLen == 1
MaxPVNameLen == 5

\* the file share name limit Provision passes to GenerateVolumeName
ShareNameLimit == 63

\* names are sequences of characters; these are the characters tried
NameChars == {"a", "-"}

\* the strings of NameChars of length lo to hi
NamesOfLen(lo, hi) == UNION {[1..n -> NameChars] : n \in lo..hi}

\* a.options.ClusterName
ClusterNames == NamesOfLen(0, MaxClusterNameLen)

\* a PV name that leaves two characters for the prefix, one that leaves none,
\* and one that does not fit
LongPVNames ==
    {[i \in 1..n |-> "a"] : n \in {ShareNameLimit - 3, ShareNameLimit - 1, ShareNameLimit}}

\* a.options.PVName
PVNames == NamesOfLen(1, MaxPVNameLen) \cup LongPVNames

\* what stops Provision before it reaches the cloud, if anything
OptionChecks == {"ok", "accessModes", "block", "option", "selector"}

\* the outcome of a sliced string expression: the string, or a runtime panic
Sliced(str) == [panic |-> FALSE, name |-> str]
SlicePanic == [panic |-> TRUE, name |-> <<>>]

\* util.GenerateVolumeName
GenerateVolumeName(clusterName, pvName, maxLength) ==
    LET prefix == clusterName \o <<"-", "d", "y", "n", "a", "m", "i", "c">>
        pvLen == Len(pvName)
    IN  IF pvLen + 1 + Len(prefix) > maxLength
        THEN IF maxLength - pvLen - 1 < 0
             THEN SlicePanic
             ELSE Sliced(SubSeq(prefix, 1, maxLength - pvLen - 1) \o <<"-">> \o pvName)
        ELSE Sliced(prefix \o <<"-">> \o pvName)

RECURSIVE Replace(_, _, _)
\* strings.Replace(str, old, new, -1) for a non-empty old: the non-overlapping
\* occurrences, from the left
Replace(str, old, new) ==
    IF Len(str) < Len(old) THEN str
    ELSE IF HasPrefix(str, old)
         THEN new \o Replace(SubSeq(str, Len(old) + 1, Len(str)), old, new)
    ELSE <<Head(str)>> \o Replace(Tail(str), old, new)

NoPV == [set |-> FALSE, name |-> <<>>, shareName |-> <<>>]

InitProvision ==
    az = [pc |-> "init", clusterName |-> <<>>, pvName |-> <<>>, name |-> <<>>,
          calls |-> <<>>, shares |-> {}, secret |-> FALSE,
          pv |-> NoPV, err |-> "none"]

\* Provision up to the call of CreateFileShare
ProvisionCall ==
    /\ az.pc = "init"
    /\ \E clusterName \in ClusterNames, pvName \in PVNames, check \in OptionChecks :
         LET gen == GenerateVolumeName(clusterName, pvName, ShareNameLimit) IN
         az' = [az EXCEPT
                  !.clusterName = clusterName,
                  !.pvName = pvName,
                  !.name = IF check \in {"accessModes", "block"} \/ gen.panic THEN <<>>
                           ELSE Replace(gen.name, <<"-", "-">>, <<"-">>),
                  !.err = IF check \in {"accessModes", "block"} THEN check
                          ELSE IF gen.panic THEN "none"
                          ELSE IF check = "ok" THEN "none" ELSE check,
                  !.pc = IF check \in {"accessModes", "block"} THEN "done"
                         ELSE IF gen.panic THEN "panic"
                         ELSE IF check = "ok" THEN "create" ELSE "done"]
    /\ UNCHANGED notProvisionVars

\* a.azureProvider.CreateFileShare and the check of its error
ProvisionCreateFileShare ==
    /\ az.pc = "create"
    /\ \E ok \in BOOLEAN :
         az' = [az EXCEPT
                  !.calls = Append(@, "CreateFileShare"),
                  !.shares = IF ok THEN @ \cup {az.name} ELSE @,
                  !.err = IF ok THEN "none" ELSE "createErr",
                  !.pc = IF ok THEN "secret" ELSE "done"]
    /\ UNCHANGED notProvisionVars

\* a failed SetAzureCredentials followed by a delete of the share
ProvisionSetAzureCredentialsCompensating ==
    /\ az.pc = "secret"
    /\ \E ok \in BOOLEAN :
         az' = [az EXCEPT
                  !.calls = IF ok THEN Append(@, "SetAzureCredentials")
                            ELSE @ \o <<"SetAzureCredentials", "DeleteFileShare">>,
                  !.shares = IF ok THEN @ ELSE @ \ {az.name},
                  !.secret = ok,
                  !.pv = IF ok THEN [set |-> TRUE, name |-> az.pvName, shareName |-> az.name]
                         ELSE NoPV,
                  !.err = IF ok THEN "nil" ELSE "secretErr",
                  !.pc = "done"]
    /\ UNCHANGED notProvisionVars

\* a.util.SetAzureCredentials, the check of its error and the PV returned
ProvisionSetAzureCredentials ==
    /\ az.pc = "secret"
    /\ \E ok \in BOOLEAN :
         az' = [az EXCEPT
                  !.calls = Append(@, "SetAzureCredentials"),
                  !.secret = ok,
                  !.pv = IF ok THEN [set |-> TRUE, name |-> az.pvName, shareName |-> az.name]
                         ELSE NoPV,
                  !.err = IF ok THEN "nil" ELSE "secretErr",
                  !.pc = "done"]
    /\ UNCHANGED notProvisionVars

NextProvision ==
    \/ ProvisionCall
    \/ ProvisionCreateFileShare
    \/ ProvisionSetAzureCredentials

(***************************************************************************)
(* util.GenerateVolumeName with any length limit                           *)
(***************************************************************************)
\* largest maxLength handed to GenerateVolumeName
MaxLengthArg == 12

\* no call yet
InitVolumeName ==
    vn = [called |-> FALSE, clusterName |-> <<>>, pvName |-> <<>>, maxLength |-> 0,
          out |-> Sliced(<<>>)]

\* a call util.GenerateVolumeName(clusterName, pvName, maxLength)
GenerateVolumeNameCall ==
    /\ ~vn.called
    /\ \E clusterName \in ClusterNames, pvName \in NamesOfLen(1, MaxPVNameLen),
          maxLength \in 1..MaxLengthArg :
         vn' = [called |-> TRUE, clusterName |-> clusterName, pvName |-> pvName,
                maxLength |-> maxLength,
                out |-> GenerateVolumeName(clusterName, pvName, maxLength)]
    /\ UNCHANGED notVolumeNameVars

NextVolumeName == GenerateVolumeNameCall

(***************************************************************************)
(* LogsOptions.ToLogOptions                                                *)
(***************************************************************************)
\* largest --tail value tried besides selectorTail
MaxTail == 3

selectorTail == 10

\* o.Tail: -1 when --tail is not given
TailUnset == 0 - 1
Tails == (TailUnset..MaxTail) \cup {selectorTail}

\* o.Selector: empty, or a label query
Selectors == {<<>>, <<"a", "=", "b">>}

\* o.SinceTime: empty, a time that parses, one that does not
SinceTimes == {"", "rfc3339", "malformed"}

NoLogOptions ==
    [nil |-> TRUE, sinceTime |-> FALSE, limitBytes |-> FALSE, sinceSeconds |-> FALSE,
     tailLinesSet |-> FALSE, tailLines |-> 0]

LogsFlags ==
    [Selector : Selectors, Tail : Tails, SinceTime : SinceTimes,
     LimitBytes : {0, 1}, SinceSeconds : {0, 1}]

InitLogs ==
    lg = [called |-> FALSE,
          o |-> [Selector |-> <<>>, Tail |-> TailUnset, SinceTime |-> "",
                 LimitBytes |-> 0, SinceSeconds |-> 0],
          logOptions |-> NoLogOptions, err |-> "none"]

\* LogsOptions.ToLogOptions: [logOptions, err]
ToLogOptions(o) ==
    IF Len(o.SinceTime) > 0 /\ o.SinceTime = "malformed"
    THEN [logOptions |-> NoLogOptions, err |-> "parseErr"]
    ELSE [logOptions |->
            [nil |-> FALSE,
             sinceTime |-> (o.SinceTime # ""),
             limitBytes |-> (o.LimitBytes # 0),
             sinceSeconds |-> (o.SinceSeconds # 0),
             tailLinesSet |-> (o.Tail # TailUnset),
             tailLines |-> IF Len(o.Selector) > 0 /\ o.Tail # TailUnset THEN selectorTail
                           ELSE IF o.Tail # TailUnset THEN o.Tail
                           ELSE 0],
          err |-> "nil"]

\* kubectl logs with some flags, up to the log options it asks for
ToLogOptionsCall ==
    /\ ~lg.called
    /\ \E o \in LogsFlags :
         lg' = [called |-> TRUE, o |-> o,
                logOptions |-> ToLogOptions(o).logOptions,
                err |-> ToLogOptions(o).err]
    /\ UNCHANGED notLogsVars

NextLogs == ToLogOptionsCall

(***************************************************************************)
(* makeGlobalPDPath and getVolumeIDFromGlobalMount                         *)
(***************************************************************************)
\* longest zone label and longest volume name after "vol-" tried
MaxZoneLen == 2
MaxVolNameLen == 3

\* host.GetPluginDir(awsElasticBlockStorePluginName), shortened
PluginDir == <<"/", "p", "/", "a", "w", "s", "-", "e", "b", "s">>

\* mount.MountsInGlobalPDPath
MountsInGlobalPDPath == <<"m", "o", "u", "n", "t", "s">>

\* "aws://"
awsURLNamePrefix == <<"a", "w", "s", ":", "/", "/">>

\* the volume names vol-X
VolNames == {<<"v", "o", "l", "-">> \o x : x \in NamesOfLen(1, MaxVolNameLen)}

\* the three accepted formats: vol-X, aws://zone/vol-X, aws:///vol-X
KubernetesVolumeIDs ==
    VolNames
    \cup {awsURLNamePrefix \o zone \o <<"/">> \o vol :
            zone \in NamesOfLen(0, MaxZoneLen), vol \in VolNames}

RECURSIVE JoinStrings(_, _)
\* strings.Join(elems, sep)
JoinStrings(elems, sep) ==
    IF elems = <<>> THEN <<>>
    ELSE IF Len(elems) = 1 THEN elems[1]
    ELSE elems[1] \o sep \o JoinStrings(Tail(elems), sep)

RECURSIVE CleanElems(_, _, _)
\* the elements of a cleaned path: empty and "." elements dropped, each ".."
\* removing the element before it (dropped at the root, kept at the start of a
\* relative path)
CleanElems(elems, rooted, out) ==
    IF elems = <<>> THEN out
    ELSE LET el == Head(elems) IN
         IF el = <<>> \/ el = <<".">> THEN CleanElems(Tail(elems), rooted, out)
         ELSE IF el = <<".", ".">>
              THEN IF out # <<>> /\ out[Len(out)] # <<".", ".">>
                   THEN CleanElems(Tail(elems), rooted, SubSeq(out, 1, Len(out) - 1))
                   ELSE IF rooted THEN CleanElems(Tail(elems), rooted, out)
                   ELSE CleanElems(Tail(elems), rooted, Append(out, el))
         ELSE CleanElems(Tail(elems), rooted, Append(out, el))

\* filepath.IsAbs
IsAbs(path) == path # <<>> /\ path[1] = "/"

\* the elements of filepath.Clean(path)
PathElems(path) == CleanElems(Split(path, "/"), IsAbs(path), <<>>)

\* filepath.Clean
Clean(path) ==
    IF IsAbs(path) THEN <<"/">> \o JoinStrings(PathElems(path), <<"/">>)
    ELSE IF PathElems(path) = <<>> THEN <<".">>
    ELSE JoinStrings(PathElems(path), <<"/">>)

\* filepath.Join of non-empty elements
FilepathJoin(elems) == Clean(JoinStrings(elems, <<"/">>))

RECURSIVE CommonPrefixLen(_, _)
CommonPrefixLen(a, b) ==
    IF a = <<>> \/ b = <<>> \/ Head(a) # Head(b) THEN 0
    ELSE 1 + CommonPrefixLen(Tail(a), Tail(b))

\* filepath.Rel(basepath, targpath): [rel, err]
FilepathRel(basepath, targpath) ==
    LET base == PathElems(basepath)
        targ == PathElems(targpath)
        n == CommonPrefixLen(base, targ)
        ups == [i \in 1..(Len(base) - n) |-> <<".", ".">>]
        rest == SubSeq(targ, n + 1, Len(targ))
    IN  IF IsAbs(basepath) # IsAbs(targpath)
           \/ \E i \in (n + 1)..Len(base) : base[i] = <<".", ".">>
        THEN [rel |-> <<>>, err |-> "relErr"]
        ELSE IF ups \o rest = <<>> THEN [rel |-> <<".">>, err |-> "nil"]
        ELSE [rel |-> JoinStrings(ups \o rest, <<"/">>), err |-> "nil"]

RECURSIVE ReplaceFirst(_, _, _)
\* strings.Replace(str, old, new, 1) for a non-empty old
ReplaceFirst(str, old, new) ==
    IF Len(str) < Len(old) THEN str
    ELSE IF HasPrefix(str, old) THEN new \o SubSeq(str, Len(old) + 1, Len(str))
    ELSE <<Head(str)>> \o ReplaceFirst(Tail(str), old, new)

\* makeGlobalPDPath(host, volumeID)
makeGlobalPDPath(volumeID) ==
    FilepathJoin(<<PluginDir, MountsInGlobalPDPath,
                   Replace(volumeID, <<":", "/", "/">>, <<"/">>)>>)

\* getVolumeIDFromGlobalMount(host, globalPath): [volumeID, err]
getVolumeIDFromGlobalMount(globalPath) ==
    LET basePath == FilepathJoin(<<PluginDir, MountsInGlobalPDPath>>)
        r == FilepathRel(basePath, globalPath)
    IN  IF r.err # "nil" THEN [volumeID |-> <<>>, err |-> r.err]
        ELSE IF Contains(r.rel, <<".", ".", "/">>)
             THEN [volumeID |-> <<>>, err |-> "unexpected mount path"]
        ELSE IF HasPrefix(r.rel, <<"a", "w", "s", "/">>)
             THEN [volumeID |-> ReplaceFirst(r.rel, <<"a", "w", "s", "/">>, awsURLNamePrefix),
                   err |-> "nil"]
        ELSE [volumeID |-> r.rel, err |-> "nil"]

InitGlobalMount ==
    gm = [called |-> FALSE, volumeID |-> <<>>, globalPath |-> <<>>,
          ret |-> [volumeID |-> <<>>, err |-> "none"]]

\* a volume is mounted at its global path and the ID is read back from the path
GlobalMountRoundTrip ==
    /\ ~gm.called
    /\ \E volumeID \in KubernetesVolumeIDs :
         gm' = [called |-> TRUE, volumeID |-> volumeID,
                globalPath |-> makeGlobalPDPath(volumeID),
                ret |-> getVolumeIDFromGlobalMount(makeGlobalPDPath(volumeID))]
    /\ UNCHANGED notGlobalMountVars

NextGlobalMount == GlobalMountRoundTrip

(***************************************************************************)
(* PCCloud.DiskIsAttached and PCCloud.DisksAreAttached                     *)
(***************************************************************************)
\* most persistent disks of the project
MaxPhotonDisks == 2

\* the names nodes are asked about, besides the local host; a VM's ID is its
\* name's number, or "" for a VM without an ID
PhotonNames == {1, 2}
LocalK8sHostname == 0
LocalInstanceID == 0
PhotonDisks == 1..MaxPhotonDisks

\* the project's VMs by name: no VM of that name, a VM with an empty ID, or a
\* VM with its ID
VMLists == [PhotonNames -> {"absent", "emptyID", "vm"}]

\* disk.VMs of each disk: the ID of the VM it is attached to, or none (-1)
NotAttached == 0 - 1
DiskVMs == [PhotonDisks -> {NotAttached, LocalInstanceID} \cup PhotonNames]

\* what fails in the cloud during a call: nothing, every getPhotonClient, the
\* getPhotonClient of the instance lookup only, or Projects.GetVMs
PhotonFailures == {"none", "client", "clientLater", "getVMs"}

\* the empty string as a VM ID
EmptyID == 0 - 2

\* getVMIDbyNodename and getVMIDbyIP, which differ in what they match a VM on:
\* [vmID, err]
getVMIDbyName(cloud, name) ==
    IF cloud.fail \in {"client", "clientLater"} THEN [vmID |-> EmptyID, err |-> "clientErr"]
    ELSE IF cloud.fail = "getVMs" THEN [vmID |-> EmptyID, err |-> "getVMsErr"]
    ELSE IF cloud.vms[name] = "vm" THEN [vmID |-> name, err |-> "nil"]
    ELSE IF cloud.vms[name] = "emptyID" THEN [vmID |-> EmptyID, err |-> "nil"]
    ELSE [vmID |-> EmptyID, err |-> "no matching VM is found"]

\* getInstanceID
getInstanceID(cloud, name) ==
    LET r == getVMIDbyName(cloud, name) IN
    IF r.err # "nil" THEN [vmID |-> EmptyID, err |-> r.err]
    ELSE IF r.vmID = EmptyID THEN [vmID |-> EmptyID, err |-> "InstanceNotFound"]
    ELSE r

\* PCCloud.InstanceID
PCInstanceID(cloud, nodeName) ==
    IF nodeName = LocalK8sHostname THEN [vmID |-> LocalInstanceID, err |-> "nil"]
    ELSE getInstanceID(cloud, nodeName)

\* PCCloud.DiskIsAttached: [attached, err]
DiskIsAttached(cloud, pdID, nodeName) ==
    IF cloud.fail = "client" THEN [attached |-> FALSE, err |-> "clientErr"]
    ELSE IF pdID \in cloud.diskGetFails THEN [attached |-> FALSE, err |-> "diskErr"]
    ELSE LET r == PCInstanceID(cloud, nodeName) IN
         IF r.err = "InstanceNotFound" THEN [attached |-> FALSE, err |-> "nil"]
         ELSE IF r.err # "nil" THEN [attached |-> FALSE, err |-> r.err]
         ELSE [attached |-> (cloud.diskVMs[pdID] = r.vmID), err |-> "nil"]

\* PCCloud.DisksAreAttached: [attached, err], attached a map from disk IDs
DisksAreAttached(cloud, pdIDs, nodeName) ==
    IF cloud.fail = "client" THEN [attached |-> <<>>, err |-> "clientErr"]
    ELSE LET r == PCInstanceID(cloud, nodeName) IN
         IF r.err = "InstanceNotFound"
         THEN [attached |-> [d \in pdIDs |-> FALSE], err |-> "nil"]
         ELSE IF r.err # "nil" THEN [attached |-> [d \in pdIDs |-> FALSE], err |-> r.err]
         ELSE [attached |-> [d \in pdIDs |->
                               d \notin cloud.diskGetFails /\ cloud.diskVMs[d] = r.vmID],
               err |-> "nil"]

\* the states of the project a call can meet
PhotonClouds ==
    [vms : VMLists, diskVMs : DiskVMs, fail : PhotonFailures,
     diskGetFails : {{}} \cup {{d} : d \in PhotonDisks}]

InitPhoton ==
    pcc = [op |-> "none",
          cloud |-> [vms |-> [n \in PhotonNames |-> "absent"],
                     diskVMs |-> [d \in PhotonDisks |-> NotAttached],
                     fail |-> "none", diskGetFails |-> {}],
          nodeName |-> LocalK8sHostname, pdIDs |-> {},
          attached |-> <<>>, err |-> "none"]

\* a call pc.DiskIsAttached(ctx, pdID, nodeName)
DiskIsAttachedCall ==
    /\ pcc.op = "none"
    /\ \E cloud \in PhotonClouds, pdID \in PhotonDisks,
          nodeName \in PhotonNames \cup {LocalK8sHostname} :
         pcc' = [op |-> "DiskIsAttached", cloud |-> cloud, nodeName |-> nodeName,
                pdIDs |-> {pdID},
                attached |-> [d \in {pdID} |-> DiskIsAttached(cloud, pdID, nodeName).attached],
                err |-> DiskIsAttached(cloud, pdID, nodeName).err]
    /\ UNCHANGED notPhotonVars

\* a call pc.DisksAreAttached(ctx, pdIDs, nodeName)
DisksAreAttachedCall ==
    /\ pcc.op = "none"
    /\ \E cloud \in PhotonClouds, pdIDs \in SUBSET PhotonDisks,
          nodeName \in PhotonNames \cup {LocalK8sHostname} :
         pcc' = [op |-> "DisksAreAttached", cloud |-> cloud, nodeName |-> nodeName,
                pdIDs |-> pdIDs,
                attached |-> DisksAreAttached(cloud, pdIDs, nodeName).attached,
                err |-> DisksAreAttached(cloud, pdIDs, nodeName).err]
    /\ UNCHANGED notPhotonVars

NextPhoton ==
    \/ DiskIsAttachedCall
    \/ DisksAreAttachedCall

(***************************************************************************)
(* Specifications                                                          *)
(***************************************************************************)
Init ==
    /\ InitAttach
    /\ InitMount
    /\ InitWait
    /\ InitCni
    /\ InitBoot
    /\ InitLimits
    /\ InitDrain
    /\ InitWaitDelete
    /\ InitCache
    /\ InitProvision
    /\ InitVolumeName
    /\ InitLogs
    /\ InitGlobalMount
    /\ InitPhoton

SpecAttach == Init /\ [][NextAttach]_vars

SpecMount == Init /\ [][NextMount]_vars

SpecWait == Init /\ [][NextWait]_vars

SpecCni == Init /\ [][NextCni]_vars

SpecBoot == Init /\ [][NextBoot]_vars

SpecLimits == Init /\ [][NextLimits]_vars

SpecDrain == Init /\ [][NextDrain]_vars

SpecWaitDelete == Init /\ [][NextWaitDelete]_vars

SpecCache == Init /\ [][NextCache]_vars

SpecProvision == Init /\ [][NextProvision]_vars

SpecVolumeName == Init /\ [][NextVolumeName]_vars

SpecLogs == Init /\ [][NextLogs]_vars

SpecGlobalMount == Init /\ [][NextGlobalMount]_vars

SpecPhoton == Init /\ [][NextPhoton]_vars

(***************************************************************************)
(* C1                                                                      *)
(***************************************************************************)
InLunSection(p) == apc[p] \in {"a_getNextLun", "a_attachDisk", "d_detach"}

\* C1: at most one attacher/detacher per instance is inside the LUN critical
\* section, no two callers on one instance hold the same LUN from
\* GetNextDiskLun, no two data disks of one VM share a LUN, and a caller that
\* has returned (on any path) holds no mutex.
C1_LunSectionExclusive ==
    /\ \A p, q \in Procs :
         (p # q /\ InLunSection(p) /\ InLunSection(q))
            => InstanceID(anode[p]) # InstanceID(anode[q])
    /\ \A p, q \in Procs :
         (p # q /\ apc[p] = "a_attachDisk" /\ apc[q] = "a_attachDisk"
               /\ anode[p] = anode[q]) => alun[p] # alun[q]
    /\ \A n \in Nodes : \A e, f \in vmDisks[n] : (e[2] = f[2]) => e = f
    /\ \A p \in Procs : apc[p] = "idle" => ~HoldsLock(p)
    /\ \A p \in Procs : InLunSection(p) => mutexes[HashKey(InstanceID(anode[p]))] = p

\* a second disk is being attached at LUN 1 of an instance whose LUN 0 holds
\* another disk, while a concurrent Attach for that instance waits for the mutex
C1_Witness ==
    \E p, q \in Procs :
        /\ p # q
        /\ apc[p] = "a_attachDisk" /\ alun[p] = 1
        /\ \E d \in Disks : d # adisk[p] /\ <<d, 0>> \in vmDisks[anode[p]]
        /\ apc[q] = "a_lock" /\ anode[q] = anode[p] /\ adisk[q] # adisk[p]

(***************************************************************************)
(* C2, C3, C4: SetUpAt                                                     *)
(***************************************************************************)
SetUpReturned == mpc = "idle" /\ mplugin \in {"aws", "gce", "azure"} /\ mret # "none"

\* C2: after a failed Mount the recovery unmounts at most once, mounts again at
\* most once and checks the mount point at most twice, at every point of SetUpAt
C2_RecoveryAtMostOnce ==
    mplugin \in {"aws", "gce", "azure"} =>
        /\ mafter.unmount <= 1
        /\ mafter.mount <= 1
        /\ mafter.check <= 2
        /\ mcalls.mount <= 2
        /\ (~mfailed => mafter = NoAfter)

\* SetUpAt has returned after a failed Mount that left the directory mounted and
\* one Unmount
C2_Witness ==
    SetUpReturned /\ mfailed /\ mafter.unmount = 1 /\ mafter.check = 2 /\ mlast = "mnt"

\* C3: SetUpAt whose Mount failed returns the mount error whatever the cleanup
\* steps did, and SetUpAt never returns nil then
C3_MountErrorReturned ==
    (SetUpReturned /\ mfailed) => mret = "mountErr"

\* the Unmount of the recovery failed and SetUpAt has returned
C3_Witness ==
    SetUpReturned /\ mfailed /\ mafter.unmount = 1 /\ mafter.check = 1 /\ mounted

\* C4: a first check that reports a mount point makes SetUpAt return nil with no
\* MkdirAll, Mount, Unmount or Remove (Azure File: when ReadDir succeeds as
\* well); a SetUpAt that returns nil otherwise has called Mount exactly once, so
\* a successful SetUpAt and the calls after it mount once in total
C4_SetUpAtIdempotent ==
    SetUpReturned =>
        LET already == mfirst = "mnt" /\ (mplugin = "azure" => mreaddir = "ok") IN
        /\ already => (mret = "nil" /\ mcalls = NoCalls)
        /\ (mret = "nil" /\ ~already) => mcalls.mount = 1
        /\ (mstart[2] /\ mreaddir # "err") => mcalls.mount = 0

\* a SetUpAt on the directory an earlier SetUpAt mounted has returned nil
C4_Witness ==
    SetUpReturned /\ mstart = <<TRUE, TRUE>> /\ mfirst = "mnt" /\ mret = "nil"
        /\ mcalls = NoCalls /\ mplugin = "aws"

(***************************************************************************)
(* C5: UnmountPath                                                         *)
(***************************************************************************)
UnmountReturned == mpc = "idle" /\ mplugin = "unmount" /\ mret # "none"

\* C5: UnmountPath removes the directory only after a mount-point check reported
\* no mount point, does not Unmount a path verified as not mounted, returns nil
\* only when the path did not exist or the removal succeeded, and returns
\* "failed to unmount path" with the directory in place when it is still a
\* mount point after Unmount
C5_UnmountPathContract ==
    UnmountReturned =>
        /\ mcalls.remove > 0 => mlast = "notmnt"
        /\ mfirst = "notmnt" => mcalls.unmount = 0
        /\ mret = "nil" => (~mstart[1] \/ (mcalls.remove = 1 /\ ~dirExists))
        /\ (mcalls.unmount = 1 /\ mlast = "mnt") => (mret = "failedToUnmount" /\ dirExists)

(***************************************************************************)
(* C6: WaitForAttach                                                       *)
(***************************************************************************)
\* C6: WaitForAttach keeps polling until the device is found or the timeout
\* elapses: once it is polling it returns an error only when a lookup failed or
\* the timeout has elapsed, and it returns the path of a device that appears on
\* a later poll
C6_PollsUntilTimeout ==
    (wpc = "idle" /\ wret \notin {"none", "path", "lunErr"}) =>
        (wret = "tickerFailed" \/ wtick >= wtimeout)

(***************************************************************************)
(* C7, C8: cniNetworkPlugin                                                *)
(***************************************************************************)
\* the plugin was not initialized when the call checked: no default network, or
\* a configuration that declares ipRanges and no pod CIDR
SeenUninitialized ==
    \/ cseen[1] = NilNetwork
    \/ (\E i \in 1..Len(cseen[1]) : cseen[1][i]) /\ cseen[2] = ""

\* C7: a SetUpPod / TearDownPod call that finds no default network, or an
\* ipRanges configuration without a pod CIDR, has returned an error and has made
\* no AddNetworkList / DelNetworkList call
C7_UninitializedBlocksPods ==
    (cop # "none" /\ SeenUninitialized) =>
        (cpc = "idle" /\ cret \in {"uninitialized", "noPodCIDR"} /\ ccalls = NoCniCalls)

\* SetUpPod was refused for a configuration whose second plugin declares
\* ipRanges while no pod CIDR is set
C7_Witness ==
    cop = "setup" /\ cpc = "idle" /\ cseen = <<(<<FALSE, TRUE>>), "">> /\ cret = "noPodCIDR"

\* C8: a pod CIDR that is set never changes, and podCidr changes only by a
\* pod-CIDR-change event whose detail is a string
C8_PodCidrSetOnce ==
    [][/\ (podCidr # "" => podCidr' = podCidr)
       /\ (podCidr' # podCidr =>
              (cev'.name = PodCidrChange /\ cev'.str /\ cev'.val = podCidr'))]_vars

\* a second pod-CIDR-change event with another CIDR was ignored
C8_Witness ==
    podCidr # "" /\ cev.name = PodCidrChange /\ cev.str /\ cev.val \notin {podCidr, ""}

(***************************************************************************)
(* C9, C10: bootstrap.LoadClientCert                                       *)
(***************************************************************************)
\* an invocation of LoadClientCert has been made
BootInvoked == bseen.stat # "none"

\* C9: when the kubeconfig exists, loads and carries an unexpired client
\* certificate, LoadClientCert has returned nil without loading the bootstrap
\* kubeconfig, loading or generating a key, contacting the API server, or writing
\* or removing a file; when the file does not exist, does not load as a config or
\* carries an expired certificate, it goes on to the bootstrap kubeconfig
C9_ShortCircuit ==
    /\ (BootInvoked /\ bseen.stat = "ok" /\ bseen.kind = "valid") =>
          /\ bpc = "idle"
          /\ bret = "nil"
          /\ beff = NoEffects
          /\ <<storeKey, tmpKey>> = bstart
          /\ bcsr = 0
    /\ (BootInvoked /\ (\/ bseen.stat = "notExist"
                        \/ bseen.stat = "ok" /\ bseen.kind \in {"corrupt", "expired"})) =>
          (bpc # "idle" \/ beff.bootstrap)

\* an invocation found a valid kubeconfig, written by an earlier one, and returned
C9_Witness ==
    /\ bseen = [stat |-> "ok", kind |-> "valid"]
    /\ bpc = "idle"
    /\ bret = "nil"
    /\ bprev.ret = "nil"
    /\ storeKey # 0

\* the invocation before this one failed at RequestNodeCertificate or store.Update
PrevFailedAtCsr == bprev.ret \in {"csrErr", "updateErr"}

\* the temporary key file is gone only after store.Update succeeded
RemovedOnlyAfterUpdate ==
    ((bstart[2] # 0 /\ tmpKey = 0) \/ beff.removed) => beff.updated

\* the next invocation submits its CSR with the key of the failed one
NextCsrSameKey == (PrevFailedAtCsr /\ bcsr # 0) => bcsr = bprev.key

\* C10: after LoadClientCert failed at RequestNodeCertificate or store.Update,
\* the key it used remains in kubelet-client.key.tmp, the next invocation submits
\* its CSR with the same key, and the file is removed only after store.Update
\* succeeded
C10_KeyStaysInTmpFile ==
    /\ (bpc = "idle" /\ bret \in {"csrErr", "updateErr"}) => tmpKey = keyData
    /\ NextCsrSameKey
    /\ RemovedOnlyAfterUpdate

\* C10 (amended): after such a failure the key remains where LoadClientCert took
\* it from: in kubelet-client.key.tmp when LoadOrGenerateKeyFile read or
\* generated it, in the store's current certificate when the store had a valid
\* key; the next invocation submits its CSR with the same key, and the file is
\* removed only after store.Update succeeded
C10_KeyStaysWhereTaken ==
    /\ (bpc = "idle" /\ bret \in {"csrErr", "updateErr"}) =>
          /\ bsrc \in {"file", "generated"} => tmpKey = keyData
          /\ bsrc = "store" => storeKey = keyData
          /\ bsrc # "none"
    /\ NextCsrSameKey
    /\ RemovedOnlyAfterUpdate

\* a second invocation has submitted its CSR with the key that the first, failed
\* one generated
C10_Witness ==
    /\ PrevFailedAtCsr
    /\ bcsr # 0
    /\ bcsr = bprev.key
    /\ bsrc = "file"

(***************************************************************************)
(* C11: the kubeconfig is produced last                                    *)
(***************************************************************************)
\* the invocation returned an error from a step before the kubeconfig is written
FailedBeforeWrite ==
    bpc = "idle" /\ bret \in {"statErr", "bootstrapErr", "keyErr", "csrErr", "updateErr"}

\* C11: kubeconfigPath is written only after RequestNodeCertificate and
\* store.Update succeeded; an invocation that ended before store.Update succeeded
\* either short-circuited or returned an error, and left kubeconfigPath unwritten;
\* after a failed waitForServer the invocation still submits its CSR; the
\* kubeconfig written names store.CurrentPath() as client certificate and key
C11_KubeconfigWrittenLast ==
    /\ beff.kubeWritten => (beff.certified /\ beff.updated)
    /\ (BootInvoked /\ bpc = "idle" /\ ~beff.updated) =>
          /\ ~beff.kubeWritten
          /\ (FailedBeforeWrite \/ (bret = "nil" /\ beff = NoEffects))
    /\ (beff.waitFailed /\ bpc = "idle") => (bcsr # 0 /\ bret # "waitErr")
    /\ (bpc = "idle" /\ bret = "nil" /\ beff.kubeWritten) =>
          /\ kubeAuth = <<CurrentPath, CurrentPath>>
          /\ kubeconfig \in {"valid", "expired"}
          /\ storeKey = keyData

\* an invocation whose waitForServer failed has written the kubeconfig and
\* returned nil
C11_Witness ==
    /\ bpc = "idle"
    /\ bret = "nil"
    /\ beff.waitFailed
    /\ beff.kubeWritten
    /\ kubeAuth = <<CurrentPath, CurrentPath>>

(***************************************************************************)
(* C12: GetVolumeLimits                                                    *)
(***************************************************************************)
\* the plugin's default limit
DefaultLimits ==
    IF vl.plugin = "aws" THEN <<EBSVolumeLimitKey, DefaultMaxEBSVolumes>>
    ELSE <<GCEVolumeLimitKey, VolumeLimit16>>

\* the host has a cloud provider of the plugin's kind
OwnCloud == vl.cloud = vl.plugin

\* C12: with a cloud provider of its own kind, GetVolumeLimits returns the default
\* limit and a nil error whenever Instances() is unavailable or InstanceType
\* fails; it returns an error and no limits exactly when there is no cloud
\* provider or one of another kind
C12_LookupFailureGivesDefault ==
    vl.plugin # "none" =>
        /\ (OwnCloud /\ (~vl.instancesOk \/ vl.typeErr)) =>
              (vl.limits = DefaultLimits /\ vl.err = "nil")
        /\ (vl.err # "nil") <=> ~OwnCloud
        /\ (vl.err # "nil") => vl.limits = NoLimits
        /\ (vl.err = "nil") => vl.limits # NoLimits

\* the GCE plugin answered a failed InstanceType with its default for an instance
\* type that would otherwise raise the limit
C12_Witness ==
    /\ vl.plugin = "gce"
    /\ vl.cloud = "gce"
    /\ vl.instancesOk
    /\ vl.typeErr
    /\ GceLimitForType(vl.instanceType) = VolumeLimit128
    /\ vl.limits = <<GCEVolumeLimitKey, VolumeLimit16>>
    /\ vl.err = "nil"

(***************************************************************************)
(* C13: drain                                                              *)
(***************************************************************************)
\* a drain of an existing node has ended
DrainEnded == dr.cmd = "drain" /\ dr.pc = "done" /\ dr.nodeExists

\* the pods the node held when drain listed them
DrainedNodePods == dr.pods \cup dr.deleted \cup dr.evicted

\* the pods drain removed, and by which method
Removed == dr.deleted \cup dr.evicted

RemovedByAdvertisedMethod ==
    IF dr.eviction THEN dr.deleted = {} ELSE dr.evicted = {}

\* managed by a ReplicationController, ReplicaSet or Job, or already terminated
MustGo(pod) == pod.owner \in {"ReplicationController", "ReplicaSet", "Job"} \/ Finished(pod)

\* the pods that stop a drain, as the claim lists them
StopsDrainAsClaimed(pod) ==
    \/ pod.owner = "DaemonSet" /\ pod.phase = "Running" /\ ~dr.flags.ignoreDaemonsets
    \/ pod.owner = "none" /\ ~dr.flags.force
    \/ pod.emptyDir /\ ~dr.flags.deleteLocalData

\* the running pods that stop a drain
StopsDrain(pod) ==
    /\ ~Finished(pod)
    /\ \/ pod.owner = "DaemonSet" /\ pod.dsFound /\ ~dr.flags.ignoreDaemonsets
       \/ pod.owner = "DaemonSet" /\ ~pod.dsFound /\ ~dr.flags.force
       \/ pod.owner = "none" /\ ~dr.flags.force
       \/ pod.emptyDir /\ ~dr.flags.deleteLocalData

CordonEnded == dr.cmd \in {"cordon", "uncordon"} /\ dr.pc = "done"

\* the value of Spec.Unschedulable the command is to establish
Desired == dr.cmd = "cordon"

\* C14: cordon on a schedulable node sends a PATCH that makes Spec.Unschedulable
\* true, uncordon on an unschedulable node one that makes it false; every PATCH
\* sent yields the desired Spec; for a node that does not exist the command
\* fails and sends nothing
C14_CordonPatches ==
    CordonEnded =>
        /\ (dr.nodeExists /\ dr.startUnschedulable # Desired) =>
              (Len(dr.patches) = 1 /\ dr.unschedulable = Desired /\ ~dr.fatal)
        /\ \A i \in 1..Len(dr.patches) : ApplyPatch(dr.patches[i]) = Desired
        /\ ~dr.nodeExists => (dr.fatal /\ dr.patches = <<>>)

\* uncordon has made a cordoned node schedulable with one PATCH
C14_Witness ==
    /\ CordonEnded
    /\ dr.cmd = "uncordon"
    /\ dr.nodeExists
    /\ dr.startUnschedulable
    /\ Len(dr.patches) = 1
    /\ ~dr.unschedulable

(***************************************************************************)
(* C15: waitForDelete                                                      *)
(***************************************************************************)
\* waitForDelete has returned wd.pods and wd.err
WaitDeleteReturned == wd.pc = "done"

\* the pods whose latest lookup found the pod handed in
SeenPending == {i \in wd.given : wd.seen[i] = "sameUID"}

\* C15: waitForDelete returns no pods and a nil error once every pod was found
\* gone (NotFound, or a pod with another UID); it returns ErrWaitTimeout and the
\* non-empty list of the pods still found when the timeout elapses first; a
\* lookup error that is not NotFound is returned at once, with a non-empty list
\* that holds the pod whose lookup failed and every pod still found
C15_WaitForDelete ==
    WaitDeleteReturned =>
        /\ wd.err \in {"nil", "ErrWaitTimeout", "lookupErr"}
        /\ wd.err = "nil" <=> \A i \in wd.given : wd.seen[i] \in {"notFound", "otherUID"}
        /\ wd.err = "nil" => wd.pods = {}
        /\ wd.err = "ErrWaitTimeout" =>
              (wd.pods # {} /\ wd.pods = SeenPending /\ wd.tick = wd.timeout)
        /\ wd.err = "lookupErr" <=> \E i \in wd.given : wd.seen[i] = "error"
        /\ wd.err = "lookupErr" =>
              /\ SeenPending \subseteq wd.pods
              /\ \E i \in wd.pods : wd.seen[i] = "error"
              /\ wd.tick < wd.timeout \/ wd.tick = wd.timeout

\* one pod was found gone, the other recreated under another UID, after a poll
\* that still found both
C15_Witness ==
    /\ WaitDeleteReturned
    /\ wd.err = "nil"
    /\ wd.tick > 0
    /\ \E i \in wd.given : wd.seen[i] = "otherUID"
    /\ \E i \in wd.given : wd.seen[i] = "notFound"

(***************************************************************************)
(* C16: serviceCache                                                       *)
(***************************************************************************)
\* C16: after any sequence of getOrCreate, set and delete calls, get(k) and
\* GetByKey(k) report k present exactly when k was created or set and not
\* deleted since (sc.present), getOrCreate(k) adds one entry when k was absent
\* and none when it was present, and ListKeys and allServices return one item
\* per present key
C16_CacheConsistent ==
    /\ sc.op \in {"get", "GetByKey"} =>
          /\ sc.ret.ok <=> sc.key \in sc.present
          /\ sc.ret.err = "nil"
    /\ sc.op = "getOrCreate" =>
          /\ sc.added = (IF sc.key \in sc.before THEN 0 ELSE 1)
          /\ sc.present = sc.before \cup {sc.key}
    /\ sc.op = "ListKeys" =>
          /\ Len(sc.ret.list) = Cardinality(sc.present)
          /\ {sc.ret.list[i] : i \in 1..Len(sc.ret.list)} = sc.present
    /\ sc.op = "allServices" => Len(sc.ret.list) = Cardinality(sc.present)

\* a lookup of a name that is not in the cache while another name is
C16_Witness ==
    /\ sc.op \in {"get", "GetByKey"}
    /\ ~sc.ret.ok
    /\ sc.present # {}
    /\ sc.key \notin sc.present

(***************************************************************************)
(* C17: no compensation in Provision                                       *)
(***************************************************************************)
\* Provision returned after CreateFileShare succeeded and SetAzureCredentials
\* failed
SecretFailedAfterShare ==
    /\ az.pc = "done"
    /\ az.err = "secretErr"

\* C17: when CreateFileShare succeeded and SetAzureCredentials fails, Provision
\* returns that error and no PersistentVolume, issues no DeleteFileShare, and
\* the share it created stays
C17_NoCompensation ==
    SecretFailedAfterShare =>
        /\ ~az.pv.set
        /\ az.calls = <<"CreateFileShare", "SetAzureCredentials">>
        /\ az.name \in az.shares
        /\ ~az.secret

C17_Witness ==
    /\ SecretFailedAfterShare
    /\ az.name \in az.shares

(***************************************************************************)
(* C19: the share name has no two consecutive dashes                       *)
(***************************************************************************)
\* C19: the share name Provision derives from the cluster name and the PV name
\* never contains two consecutive '-' characters
C19_NoDoubleDash ==
    az.pc \in {"create", "secret", "done"} => ~Contains(az.name, <<"-", "-">>)

(***************************************************************************)
(* C20: GenerateVolumeName fits the given length                           *)
(***************************************************************************)
\* "<clusterName>-dynamic"
DynamicPrefix == vn.clusterName \o <<"-", "d", "y", "n", "a", "m", "i", "c">>

\* C20: for every input GenerateVolumeName returns, without failing, a string
\* of length at most maxLength that is a beginning of "<clusterName>-dynamic"
\* followed by '-' and the full pvName
C20_FitsLength ==
    vn.called =>
        /\ ~vn.out.panic
        /\ Len(vn.out.name) <= vn.maxLength
        /\ \E k \in 0..Len(DynamicPrefix) :
             vn.out.name = SubSeq(DynamicPrefix, 1, k) \o <<"-">> \o vn.pvName

(***************************************************************************)
(* C18: the --tail default                                                 *)
(***************************************************************************)
\* C18: when a selector is given and --tail is not (Tail = -1) TailLines is 10;
\* when --tail is given, with or without a selector, TailLines is the value
\* given; when neither is given TailLines is unset
C18_TailDefault ==
    (lg.called /\ lg.err = "nil") =>
        /\ (Len(lg.o.Selector) > 0 /\ lg.o.Tail = TailUnset) =>
              (lg.logOptions.tailLinesSet /\ lg.logOptions.tailLines = selectorTail)
        /\ lg.o.Tail # TailUnset =>
              (lg.logOptions.tailLinesSet /\ lg.logOptions.tailLines = lg.o.Tail)
        /\ (Len(lg.o.Selector) = 0 /\ lg.o.Tail = TailUnset) =>
              ~lg.logOptions.tailLinesSet

(***************************************************************************)
(* C21: the global mount path maps back to the volume ID                   *)
(***************************************************************************)
\* C21: for every volume ID of the forms vol-X, aws://zone/vol-X and
\* aws:///vol-X, getVolumeIDFromGlobalMount(makeGlobalPDPath(id)) returns id
\* without error
C21_GlobalMountRoundTrip ==
    gm.called => (gm.ret.err = "nil" /\ gm.ret.volumeID = gm.volumeID)

(***************************************************************************)
(* C22: a node without an instance has its disks detached                  *)
(***************************************************************************)
\* the call named a node that matches no VM, and the cloud answered every
\* request
NoInstanceForNode ==
    /\ pcc.op # "none"
    /\ pcc.nodeName # LocalK8sHostname
    /\ pcc.cloud.vms[pcc.nodeName] = "absent"
    /\ pcc.cloud.fail = "none"
    /\ pcc.cloud.diskGetFails = {}

\* C22: for a node name that matches no VM, DiskIsAttached returns (false, nil)
\* and DisksAreAttached returns every requested disk mapped to false with a nil
\* error; DisksAreAttached always returns an entry for every requested disk
C22_MissingInstanceDetached ==
    /\ NoInstanceForNode =>
          /\ pcc.err = "nil"
          /\ DOMAIN pcc.attached = pcc.pdIDs
          /\ \A d \in pcc.pdIDs : ~pcc.attached[d]
    /\ pcc.op = "DisksAreAttached" => DOMAIN pcc.attached = pcc.pdIDs

====
